---- MODULE Spec2Model ----
(***************************************************************************)
(* Registration-watch engine of regbot: the race-guide poll loop and the   *)
(* per-series diff engine (src/src/ir_watcher.rs), the split derivation    *)
(* (src/src/ir.rs) and the watch matcher (src/src/db.rs).                  *)
(***************************************************************************)
EXTENDS Integers, Sequences, FiniteSets, TLC

(***************************************************************************)
(* Bounds of the model.                                                    *)
(***************************************************************************)
\* longest race guide (number of session entries) one fetch returns
MaxGuide == 2
\* largest entry_count a race-guide entry carries
MaxCount == 2
\* largest min_reg / max_reg of a watch
MaxReg == 3
\* largest entry_count and largest split threshold num_splits is applied to
MaxEntries == 21
MaxSplitAt == 10
\* most watches in the table announce is called with
MaxWatches == 3
\* most failed runs of iracing_loop in a row
MaxStreak == 9
\* longest race guide a fetch returns while fetches may fail
MaxRetryGuide == 1
\* most poll iterations while the tasks are interleaved
MaxIter == 3
\* last day the clock reaches
MaxDay == 3
\* most rows of table reg while commands write it
MaxRows == 2

\* series ids the upstream uses
SeriesIds == {1, 2}
\* channels with watches
ChannelIds == {1, 2}

(***************************************************************************)
(* Option<T>: None is the empty sequence, Some(x) the sequence <<x>>.      *)
(***************************************************************************)
None == <<>>
Some(x) == <<x>>
is_none(o) == Len(o) = 0
is_some(o) == Len(o) = 1
unwrap(o) == o[1]

\* Rust's i64 division truncates toward zero (b > 0 here).
TruncDiv(a, b) == IF a >= 0 THEN a \div b ELSE -((-a) \div b)

(***************************************************************************)
(* Data (src/src/ir.rs).                                                   *)
(***************************************************************************)
\* struct RaceGuideEntry: the fields update() and wants() read.
RaceGuideEntry ==
    [series_id : SeriesIds, session_id : {None, Some(1)}, entry_count : 0..MaxCount]

\* struct Series: series_id, min_starters, max_starters as the feed reports them.
\* Series 1 opens a new split with every entry, the other series every 4 entries.
SeriesFeed(id) ==
    IF id = 1 THEN [series_id |-> 1, min_starters |-> 1, max_starters |-> 1]
              ELSE [series_id |-> id, min_starters |-> 2, max_starters |-> 4]

\* struct Season: the field update_series_info reads.
Season(id) == [series_id |-> id]

\* mutant of num_splits: the entry count is divided as it is
num_splits_NoMinusOne(e, split_at) == 1 + TruncDiv(e.entry_count, split_at)

\* RaceGuideEntry::num_splits
num_splits(e, split_at) == 1 + TruncDiv(e.entry_count - 1, split_at)

(***************************************************************************)
(* Diff engine (src/src/ir_watcher.rs).                                    *)
(***************************************************************************)
\* SeriesReg::new
SeriesReg_new(series) == [series |-> series, race_guide |-> None]

\* Announcement::new
Announcement_new(series, prev, curr, ann_type) ==
    [prev |-> prev, curr |-> curr, num_official |-> series.min_starters,
     num_split |-> series.max_starters, ann_type |-> ann_type]

\* Announcement::splits_changed
splits_changed(ann) ==
    num_splits(ann.prev, ann.num_split) # num_splits(ann.curr, ann.num_split)

\* mutant of UpdateFirst: a first snapshot with an open session announces Open
UpdateFirst_Announces(sr, e) ==
    [sr |-> [sr EXCEPT !.race_guide = Some(e)],
     ann |-> IF is_some(e.session_id)
             THEN Some(Announcement_new(sr.series, e, e, "Open")) ELSE None]

\* SeriesReg::update, first observation: store e, return None.
UpdateFirst(sr, e) == [sr |-> [sr EXCEPT !.race_guide = Some(e)], ann |-> None]

\* mutant of IsRegOpen: an opening with no entries yet is not reported
IsRegOpen_NeedsEntries(prev, e) ==
    is_none(prev.session_id) /\ is_some(e.session_id) /\ e.entry_count > 0

\* SeriesReg::update, "reg open" condition
IsRegOpen(prev, e) == is_none(prev.session_id) /\ is_some(e.session_id)

\* mutant of IsCountChanged: the counts are not compared
IsCountChanged_NoCompare(prev, e) ==
    /\ is_some(prev.session_id)
    /\ is_some(e.session_id)
    /\ (prev.entry_count > 0 \/ e.entry_count > 0)

\* SeriesReg::update, "reg count changed" condition
IsCountChanged(prev, e) ==
    /\ is_some(prev.session_id)
    /\ is_some(e.session_id)
    /\ prev.entry_count # e.entry_count
    /\ (prev.entry_count > 0 \/ e.entry_count > 0)

\* mutant of IsRegClosed: a close with zero entries is reported too
IsRegClosed_AnyCount(prev, e) == is_some(prev.session_id) /\ is_none(e.session_id)

\* SeriesReg::update, "reg closed" condition
IsRegClosed(prev, e) ==
    is_some(prev.session_id) /\ is_none(e.session_id) /\ prev.entry_count > 0

\* mutant of Classify: the counts are compared first, whatever the stored snapshot holds
Classify_CountFirst(series, prev, e) ==
    IF /\ is_some(e.session_id)
       /\ prev.entry_count # e.entry_count
       /\ (prev.entry_count > 0 \/ e.entry_count > 0)
    THEN Some(Announcement_new(series, prev, e, "Count"))
    ELSE IF IsRegOpen(prev, e) THEN Some(Announcement_new(series, prev, e, "Open"))
    ELSE IF IsRegClosed(prev, e) THEN Some(Announcement_new(series, prev, e, "Closed"))
    ELSE None

\* SeriesReg::update, the if / else-if chain that builds the announcement
Classify(series, prev, e) ==
    IF IsRegOpen(prev, e) THEN Some(Announcement_new(series, prev, e, "Open"))
    ELSE IF IsCountChanged(prev, e) THEN Some(Announcement_new(series, prev, e, "Count"))
    ELSE IF IsRegClosed(prev, e) THEN Some(Announcement_new(series, prev, e, "Closed"))
    ELSE None

\* mutant of StoreCurr: the snapshot is stored only when an announcement fired
StoreCurr_OnlyOnChange(sr, e, ann) ==
    IF is_some(ann) THEN [sr EXCEPT !.race_guide = Some(e)] ELSE sr

\* SeriesReg::update, the final store: self.race_guide = Some(e)
StoreCurr(sr, e, ann) == [sr EXCEPT !.race_guide = Some(e)]

\* SeriesReg::update, a slot that already holds a snapshot
UpdateTracked(sr, e) ==
    LET prev == unwrap(sr.race_guide)
        ann == Classify(sr.series, prev, e)
    IN [sr |-> StoreCurr(sr, e, ann), ann |-> ann]

\* SeriesReg::update
update(sr, e) == IF is_none(sr.race_guide) THEN UpdateFirst(sr, e) ELSE UpdateTracked(sr, e)

(***************************************************************************)
(* Maps.                                                                   *)
(***************************************************************************)
\* the empty HashMap
EmptyMap == <<>>

\* HashMap::insert
MapInsert(m, k, v) == [x \in DOMAIN m \cup {k} |-> IF x = k THEN v ELSE m[x]]

\* HashMap::remove
MapRemove(m, k) == [x \in DOMAIN m \ {k} |-> m[x]]

(***************************************************************************)
(* Catalog sync inside the poller (update_series_info).                    *)
(***************************************************************************)
\* series_by_id: the fetched series list keyed by series_id
SeriesById(series) == [id \in series |-> SeriesFeed(id)]

\* mutant of OrInsert: the slot is replaced by a fresh one
OrInsert_Overwrite(state, series) ==
    MapInsert(state, series.series_id, SeriesReg_new(series))

\* entry(series_id).or_insert_with(|| SeriesReg::new(series, season))
OrInsert(state, series) ==
    IF series.series_id \in DOMAIN state THEN state
    ELSE MapInsert(state, series.series_id, SeriesReg_new(series))

\* the loop over the seasons: remove(&season.series_id).unwrap() panics when the
\* series is missing from series_by_id (never listed, or already removed).
RECURSIVE SyncSeasons(_, _, _)
SyncSeasons(seasons, by_id, state) ==
    IF seasons = <<>> THEN [state |-> state, panicked |-> FALSE]
    ELSE LET season == Head(seasons)
         IN IF season.series_id \notin DOMAIN by_id
            THEN [state |-> state, panicked |-> TRUE]
            ELSE SyncSeasons(Tail(seasons), MapRemove(by_id, season.series_id),
                             OrInsert(state, by_id[season.series_id]))

(***************************************************************************)
(* One poll iteration's pass over the race guide (iracing_loop).           *)
(***************************************************************************)
\* mutant of FirstSeen: every entry of the guide is handled
FirstSeen_Always(seenIds, e) == TRUE

\* seen.insert(e.series_id) returns true: the id was not handled yet
FirstSeen(seenIds, e) == e.series_id \notin seenIds

\* mutant of get_mut: an unknown id gets a fresh slot (entry().or_insert)
get_mut_OrInsert(state, id) ==
    IF id \in DOMAIN state THEN Some(state[id]) ELSE Some(SeriesReg_new(SeriesFeed(id)))

\* series_state.get_mut(&e.series_id)
get_mut(state, id) == IF id \in DOMAIN state THEN Some(state[id]) ELSE None

\* mutant of HandleEntry: the snapshots of the series not met in this pass are dropped
HandleEntry_ForgetsUnseen(acc, e) ==
    IF FirstSeen(acc.seen, e)
    THEN LET nseen == acc.seen \cup {e.series_id}
             slot == get_mut(acc.state, e.series_id)
         IN IF is_some(slot)
            THEN LET r == update(unwrap(slot), e)
                 IN [state |-> [k \in DOMAIN acc.state |->
                                  IF k = e.series_id THEN r.sr
                                  ELSE IF k \in acc.seen THEN acc.state[k]
                                  ELSE [acc.state[k] EXCEPT !.race_guide = None]],
                     seen |-> nseen,
                     announcements |->
                         IF is_some(r.ann)
                         THEN MapInsert(acc.announcements, r.sr.series.series_id, unwrap(r.ann))
                         ELSE acc.announcements,
                     calls |-> Append(acc.calls,
                         [series_id |-> e.series_id, prev |-> unwrap(slot).race_guide,
                          e |-> e, stored |-> r.sr.race_guide, ann |-> r.ann])]
            ELSE [acc EXCEPT !.seen = nseen]
    ELSE acc

\* the body of "for e in guide.sessions" for one entry, on
\* acc = [state, seen, announcements, calls]; calls logs each call of update:
\* the slot before and after it, its argument and its result.
HandleEntry(acc, e) ==
    IF FirstSeen(acc.seen, e)
    THEN LET nseen == acc.seen \cup {e.series_id}
             slot == get_mut(acc.state, e.series_id)
         IN IF is_some(slot)
            THEN LET r == update(unwrap(slot), e)
                 IN [state |-> MapInsert(acc.state, e.series_id, r.sr),
                     seen |-> nseen,
                     announcements |->
                         IF is_some(r.ann)
                         THEN MapInsert(acc.announcements, r.sr.series.series_id, unwrap(r.ann))
                         ELSE acc.announcements,
                     calls |-> Append(acc.calls,
                         [series_id |-> e.series_id, prev |-> unwrap(slot).race_guide,
                          e |-> e, stored |-> r.sr.race_guide, ann |-> r.ann])]
            ELSE [acc EXCEPT !.seen = nseen]
    ELSE acc

\* for e in guide.sessions { ... }
RECURSIVE ProcessSessions(_, _)
ProcessSessions(sessions, acc) ==
    IF sessions = <<>> THEN acc
    ELSE ProcessSessions(Tail(sessions), HandleEntry(acc, Head(sessions)))

(***************************************************************************)
(* Watch matcher (src/src/db.rs).                                          *)
(***************************************************************************)
\* struct Reg: the fields wants() reads, and the channel the watch belongs to.
Reg ==
    [channel : ChannelIds, series_id : SeriesIds, min_reg : 0..MaxReg,
     max_reg : 1..MaxReg, open : BOOLEAN, close : BOOLEAN]

\* Reg::wants, assert_eq!(self.series_id, ann.curr.series_id)
WantsAssert(reg, ann) == reg.series_id = ann.curr.series_id

\* mutant of WantsOpen: an opening is reported only inside the band
WantsOpen_InBand(reg, ann) ==
    reg.open /\ ann.curr.entry_count >= reg.min_reg /\ ann.curr.entry_count <= reg.max_reg

\* Reg::wants, AnnouncementType::Open arm
WantsOpen(reg, ann) == reg.open

\* mutant of WantsClosed: min_reg is not consulted
WantsClosed_NoMin(reg, ann) == reg.close

\* Reg::wants, AnnouncementType::Closed arm
WantsClosed(reg, ann) == reg.close /\ ann.prev.entry_count >= reg.min_reg

\* mutant of WantsCount: a jump over the whole band is not reported
WantsCount_NoJump(reg, ann) ==
    \/ (ann.curr.entry_count >= reg.min_reg /\ ann.curr.entry_count <= reg.max_reg)
    \/ splits_changed(ann)

\* mutant of WantsCount: a change of the split count is not reported
WantsCount_NoSplits(reg, ann) ==
    \/ (ann.curr.entry_count >= reg.min_reg /\ ann.curr.entry_count <= reg.max_reg)
    \/ (ann.prev.entry_count < reg.min_reg /\ ann.curr.entry_count > reg.max_reg)

\* mutant of WantsCount: the jump is tested on the current count alone
WantsCount_JumpOnCurr(reg, ann) ==
    \/ (ann.curr.entry_count >= reg.min_reg /\ ann.curr.entry_count <= reg.max_reg)
    \/ (ann.curr.entry_count < reg.min_reg /\ ann.curr.entry_count > reg.max_reg)
    \/ splits_changed(ann)

\* Reg::wants, AnnouncementType::Count arm
WantsCount(reg, ann) ==
    \/ (ann.curr.entry_count >= reg.min_reg /\ ann.curr.entry_count <= reg.max_reg)
    \/ (ann.prev.entry_count < reg.min_reg /\ ann.curr.entry_count > reg.max_reg)
    \/ splits_changed(ann)

\* Reg::wants, the match on ann.ann_type
wants(reg, ann) ==
    CASE ann.ann_type = "Open" -> WantsOpen(reg, ann)
      [] ann.ann_type = "Closed" -> WantsClosed(reg, ann)
      [] ann.ann_type = "Count" -> WantsCount(reg, ann)

(***************************************************************************)
(* Retry of the poller (iracing_loop_task).                                *)
(***************************************************************************)
\* the day the process starts on
FirstDay == 1

\* def_backoff, in seconds
DefBackoff == 1
\* max_backoff, in seconds
MaxBackoff == 120

\* backoff = (backoff * 2).min(max_backoff)
NextBackoff(b) == IF b * 2 < MaxBackoff THEN b * 2 ELSE MaxBackoff

\* mutant of TaskMatch: the arms are swapped, an error is fatal
TaskMatch_GivesUp(result) == IF result = "Err" THEN "fatal" ELSE "backoff"

\* the match on the result of iracing_loop: Err sleeps and retries, Ok is the
\* fatal panic
TaskMatch(result) == IF result = "Err" THEN "backoff" ELSE "fatal"

(***************************************************************************)
(* State.                                                                  *)
(***************************************************************************)
VARIABLES
    pc,             \* position of the poller task (iracing_loop)
    series_state,   \* HashMap<i64, SeriesReg> owned by iracing_loop_task
    guide,          \* guide.sessions of the current iteration, once fetched
    seen,           \* HashSet of series ids handled in the current iteration
    announcements,  \* HashMap<i64, Announcement> built in the current iteration
    calls,          \* log of the update calls of the current iteration
    life,           \* per series: what the update calls of this run have shown so far
    backoff,        \* iracing_loop_task: the next retry delay, in seconds
    delay,          \* iracing_loop_task: the sleep in progress, in seconds (0: none)
    streak,         \* failed runs of iracing_loop since the last completed iteration
    polled,         \* some poll iteration has completed
    msgs,           \* announce: the announcements map being dispatched
    reg,            \* announce: the watch being evaluated
    wanted,         \* announce: outcome of the evaluation of reg against msgs
    regs,           \* announce: HashMap<ChannelId, Vec<Reg>> it was called with
    left,           \* announce: channels the outer loop has not visited yet
    todo,           \* announce: watches of the current channel not evaluated yet
    msger,          \* announce: the Messenger of the current channel
    outbox,         \* messages handed to the transport, in order
    say_results,    \* results of the calls of ChannelId::say to come first, in call order
    a_pc,           \* position of announce
    splits,         \* num_splits: its arguments and its result
    catalog,        \* the catalog of the last RaceGuideEvent::Seasons the poller built
    feed,           \* the seasons and series lists of the last catalog fetch
    today,          \* Utc::now().date_naive(), as a day number
    series_updated, \* iracing_loop: the day of the last catalog sync
    sync_log,       \* the calls of update_series_info of this run: where and on which day
    regtab,         \* table reg: its rows, in rowid order
    sertab,         \* table series: the series ids it has a row for
    st_seasons,     \* HandlerState::seasons
    resp,           \* what the last command answered
    poisoned,       \* a task panicked while it held the state mutex
    chan,           \* the mpsc channel from the poller to listen_task
    iter,           \* number of the poll iteration, counted at its race-guide fetch
    produced,       \* iterations whose announcements were not empty
    dispatched,     \* iterations whose announce call has returned, in order
    l_pc,           \* position of listen_task
    l_evt,          \* listen_task: the event it received
    h_pc,           \* position of the gateway event handler
    h_kind,         \* the gateway event being handled
    mutex           \* holder of the state mutex

pollVars == <<pc, series_state, guide, seen, announcements, calls, life>>
retryVars == <<backoff, delay, streak, polled>>
matchVars == <<msgs, reg, wanted>>
dispVars == <<regs, left, todo, msger, outbox, say_results, a_pc>>
splitVars == <<splits>>
syncVars == <<catalog, feed, today, series_updated, sync_log>>
storeVars == <<regtab, sertab, st_seasons, resp, poisoned>>
taskVars == <<chan, iter, produced, dispatched, l_pc, l_evt, h_pc, h_kind, mutex>>
vars == <<pc, series_state, guide, seen, announcements, calls, life, backoff, delay, streak,
          polled, msgs, reg, wanted, regs, left, todo, msger, outbox, say_results, a_pc, splits,
          catalog, feed, today, series_updated, sync_log, regtab, sertab, st_seasons, resp,
          poisoned, chan, iter, produced, dispatched, l_pc, l_evt, h_pc, h_kind, mutex>>

\* the history of a series no call of update was made for
NoLife == [id \in SeriesIds |-> [first |-> "none", opened |-> FALSE]]

\* the type of the announcement a logged call of update returned, "none" without one
AnnType(c) == IF is_some(c.ann) THEN unwrap(c.ann).ann_type ELSE "none"

\* the history of a series after the logged call c of update: first tells whether
\* the first snapshot had a session; opened holds when update has returned an Open
\* announcement and every snapshot passed to it since then had a session
Observe(l, c) ==
    [first |-> IF l.first # "none" THEN l.first
               ELSE IF is_some(c.e.session_id) THEN "session" ELSE "absent",
     opened |-> IF is_none(c.e.session_id) THEN FALSE
                ELSE IF is_some(c.ann) /\ unwrap(c.ann).ann_type = "Open" THEN TRUE
                ELSE l.opened]

\* the histories after the logged calls cs, in call order
RECURSIVE ObserveAll(_, _)
ObserveAll(h, cs) ==
    IF cs = <<>> THEN h
    ELSE ObserveAll([h EXCEPT ![Head(cs).series_id] = Observe(@, Head(cs))], Tail(cs))

\* the race guides of n entries a fetch can return
Guides(n) == [1..n -> RaceGuideEntry]

\* the seasons lists of n seasons and the series lists a catalog fetch can return
SeasonLists(n) == [1..n -> {Season(id) : id \in SeriesIds}]
SeriesLists == SUBSET SeriesIds

\* the poller before its first login
PollInit ==
    /\ pc = "login"
    /\ series_state = EmptyMap
    /\ guide = <<>>
    /\ seen = {}
    /\ announcements = EmptyMap
    /\ calls = <<>>
    /\ life = NoLife
    /\ backoff = DefBackoff
    /\ delay = 0
    /\ streak = 0
    /\ polled = FALSE

\* the matcher with nothing to evaluate
MatchIdle ==
    /\ msgs = EmptyMap
    /\ reg = None
    /\ wanted = "idle"

\* announce not called
DispatchIdle ==
    /\ regs = EmptyMap
    /\ left = {}
    /\ todo = <<>>
    /\ msger = None
    /\ outbox = <<>>
    /\ say_results = <<>>
    /\ a_pc = "idle"

\* num_splits not called
SplitsIdle == splits = None

\* no catalog built yet, the clock at its first day
SyncIdle ==
    /\ catalog = EmptyMap
    /\ feed = None
    /\ today = FirstDay
    /\ series_updated = FirstDay
    /\ sync_log = <<>>

\* empty tables, no command handled
StoreIdle ==
    /\ regtab = {}
    /\ sertab = {}
    /\ st_seasons = EmptyMap
    /\ resp = "none"
    /\ poisoned = FALSE

\* listen_task and the gateway handler not started, the channel empty
TasksIdle ==
    /\ chan = <<>>
    /\ iter = 0
    /\ produced = {}
    /\ dispatched = <<>>
    /\ l_pc = "idle"
    /\ l_evt = None
    /\ h_pc = "idle"
    /\ h_kind = "none"
    /\ mutex = "free"

\* the parts of the program a specification leaves out
RestIdle == SyncIdle /\ StoreIdle /\ TasksIdle

Init == PollInit /\ MatchIdle /\ DispatchIdle /\ SplitsIdle /\ RestIdle

\* iracing_loop: IrClient::new succeeds
Login ==
    /\ pc = "login"
    /\ pc' = "sync"
    /\ UNCHANGED <<series_state, guide, seen, announcements, calls, life>>
    /\ UNCHANGED <<retryVars, matchVars, dispVars, splitVars, syncVars, storeVars, taskVars>>

\* update_series_info at loop start
UpdateSeriesInfo(seasons, series) ==
    /\ pc = "sync"
    /\ LET r == SyncSeasons(seasons, SeriesById(series), series_state)
       IN IF r.panicked
          THEN pc' = "panicked" /\ UNCHANGED series_state
          ELSE pc' = "top" /\ series_state' = r.state
    /\ UNCHANGED <<guide, seen, announcements, calls, life>>
    /\ UNCHANGED <<retryVars, matchVars, dispVars, splitVars, syncVars, storeVars, taskVars>>

\* client.race_guide() returns the guide g
RaceGuide(g) ==
    /\ pc = "top"
    /\ pc' = "fetched"
    /\ guide' = g
    /\ UNCHANGED <<series_state, seen, announcements, calls, life>>
    /\ UNCHANGED <<retryVars, matchVars, dispVars, splitVars, syncVars, storeVars, taskVars>>

\* the pass over guide.sessions
Diff ==
    /\ pc = "fetched"
    /\ LET r == ProcessSessions(guide, [state |-> series_state, seen |-> {},
                                        announcements |-> EmptyMap, calls |-> <<>>])
       IN /\ series_state' = r.state
          /\ seen' = r.seen
          /\ announcements' = r.announcements
          /\ calls' = r.calls
    /\ pc' = "send"
    /\ UNCHANGED <<guide, life>>
    /\ UNCHANGED <<retryVars, matchVars, dispVars, splitVars, syncVars, storeVars, taskVars>>

\* the announcements go to the channel when there are any, then sleep_until;
\* the iteration's locals (guide, seen, announcements) end with the loop body
SendAndSleep ==
    /\ pc = "send"
    /\ pc' = "top"
    /\ guide' = <<>>
    /\ seen' = {}
    /\ announcements' = EmptyMap
    /\ calls' = <<>>
    /\ streak' = 0
    /\ polled' = TRUE
    /\ UNCHANGED <<series_state, life, backoff, delay>>
    /\ UNCHANGED <<matchVars, dispVars, splitVars, syncVars, storeVars, taskVars>>

Next ==
    \/ Login
    \/ pc = "sync" /\ \E n \in 0..Cardinality(SeriesIds) :
          \E seasons \in SeasonLists(n), series \in SeriesLists : UpdateSeriesInfo(seasons, series)
    \/ pc = "top" /\ \E n \in 0..MaxGuide : \E g \in Guides(n) : RaceGuide(g)
    \/ Diff
    \/ SendAndSleep

Spec == Init /\ [][Next]_vars

(***************************************************************************)
(* The poller with failing fetches (iracing_loop_task).                    *)
(***************************************************************************)
\* a "?" in iracing_loop returns Err: IrClient::new at "login", the seasons or
\* series fetch of update_series_info at "sync", race_guide at "top"; the task
\* then sleeps for backoff seconds
FetchError(at) ==
    /\ pc = at
    /\ streak < MaxStreak
    /\ pc' = TaskMatch("Err")
    /\ delay' = backoff
    /\ streak' = streak + 1
    /\ UNCHANGED <<series_state, guide, seen, announcements, calls, life, backoff, polled>>
    /\ UNCHANGED <<matchVars, dispVars, splitVars, syncVars, storeVars, taskVars>>

\* the sleep ends: the delay is doubled and iracing_loop is entered again
BackoffDone ==
    /\ pc = "backoff"
    /\ pc' = "login"
    /\ backoff' = NextBackoff(backoff)
    /\ delay' = 0
    /\ UNCHANGED <<series_state, guide, seen, announcements, calls, life, streak, polled>>
    /\ UNCHANGED <<matchVars, dispVars, splitVars, syncVars, storeVars, taskVars>>

NextRetry ==
    \/ Login
    \/ FetchError("login")
    \/ pc = "sync" /\ \E n \in 0..Cardinality(SeriesIds) :
          \E seasons \in SeasonLists(n), series \in SeriesLists : UpdateSeriesInfo(seasons, series)
    \/ FetchError("sync")
    \/ pc = "top" /\ \E n \in 0..MaxRetryGuide : \E g \in Guides(n) : RaceGuide(g)
    \/ FetchError("top")
    \/ Diff
    \/ SendAndSleep
    \/ BackoffDone

SpecRetry == Init /\ [][NextRetry]_vars

(***************************************************************************)
(* The matcher on the announcements one poll can produce.                  *)
(***************************************************************************)
\* the announcements update can return for series id
AnnouncementsOf(id) ==
    {unwrap(update([series |-> SeriesFeed(id), race_guide |-> Some(prev)], e).ann) :
        <<prev, e>> \in {pe \in RaceGuideEntry \X RaceGuideEntry :
            /\ pe[1].series_id = id
            /\ pe[2].series_id = id
            /\ is_some(update([series |-> SeriesFeed(id), race_guide |-> Some(pe[1])], pe[2]).ann)}}

\* the announcement maps a poll can send: per series no announcement or one of its own
AnnouncementMaps ==
    UNION {{m \in [ids -> UNION {AnnouncementsOf(id) : id \in ids}] :
               \A id \in ids : m[id] \in AnnouncementsOf(id)} : ids \in SUBSET SeriesIds}

\* announce is entered with one batch and reaches the watch r
MatchInit ==
    /\ pc = "login"
    /\ series_state = EmptyMap
    /\ guide = <<>>
    /\ seen = {}
    /\ announcements = EmptyMap
    /\ calls = <<>>
    /\ life = NoLife
    /\ backoff = DefBackoff
    /\ delay = 0
    /\ streak = 0
    /\ polled = FALSE
    /\ msgs \in AnnouncementMaps
    /\ reg \in {Some(r) : r \in Reg}
    /\ wanted = "idle"
    /\ DispatchIdle
    /\ SplitsIdle
    /\ RestIdle

\* announce, the loop body for one watch: msgs.get(&reg.series_id), then reg.wants(msg)
EvalWatch ==
    /\ wanted = "idle"
    /\ is_some(reg)
    /\ LET r == unwrap(reg)
       IN wanted' =
            IF r.series_id \notin DOMAIN msgs THEN "no_msg"
            ELSE IF ~WantsAssert(r, msgs[r.series_id]) THEN "panic"
            ELSE IF wants(r, msgs[r.series_id]) THEN "yes" ELSE "no"
    /\ UNCHANGED <<msgs, reg>>
    /\ UNCHANGED <<pollVars, retryVars, dispVars, splitVars, syncVars, storeVars, taskVars>>

NextMatch == EvalWatch

SpecMatch == MatchInit /\ [][NextMatch]_vars

(***************************************************************************)
(* Properties of the diff engine, checked under Spec.                      *)
(***************************************************************************)
\* the calls of update in the current iteration whose slot was Unseen
FirstCalls == {i \in DOMAIN calls : is_none(calls[i].prev)}

\* the calls of update in the current iteration whose slot held a snapshot
TrackedCalls == {i \in DOMAIN calls : is_some(calls[i].prev)}

\* C1: the first snapshot passed to update for a series (slot Unseen) is stored
\* and produces no announcement, whatever its session_id and entry_count.
C1_FirstSnapshotSilent ==
    \A i \in FirstCalls :
        /\ is_none(calls[i].ann)
        /\ calls[i].stored = Some(calls[i].e)
        /\ calls[i].series_id \notin DOMAIN announcements
        /\ series_state[calls[i].series_id].race_guide = Some(calls[i].e)

\* a first snapshot with an open session and entries was stored silently
C1_Witness ==
    /\ pc = "send"
    /\ \E i \in FirstCalls :
        /\ is_some(calls[i].e.session_id)
        /\ calls[i].e.entry_count > 0
        /\ series_state[calls[i].series_id].race_guide = Some(calls[i].e)
        /\ announcements = EmptyMap

\* C2: prev without session and curr with session yields exactly one
\* announcement, of kind Open, for all entry counts.
C2_OpenedOnSessionAppearing ==
    \A i \in TrackedCalls :
        LET prev == unwrap(calls[i].prev)
            curr == calls[i].e
        IN (is_none(prev.session_id) /\ is_some(curr.session_id)) =>
            /\ is_some(calls[i].ann)
            /\ unwrap(calls[i].ann).ann_type = "Open"
            /\ unwrap(calls[i].ann).prev = prev
            /\ unwrap(calls[i].ann).curr = curr
            /\ calls[i].series_id \in DOMAIN announcements
            /\ announcements[calls[i].series_id] = unwrap(calls[i].ann)

\* an Open announcement was produced for a session that opened with zero entries
\* after a snapshot without session that carried entries
C2_Witness ==
    /\ pc = "send"
    /\ \E s \in DOMAIN announcements :
        /\ announcements[s].ann_type = "Open"
        /\ is_none(announcements[s].prev.session_id)
        /\ announcements[s].prev.entry_count > 0
        /\ is_some(announcements[s].curr.session_id)
        /\ announcements[s].curr.entry_count = 0

\* C3: with a session in both prev and curr an announcement is emitted iff the
\* entry counts differ and one of them is non-zero, and then its kind is Count.
C3_CountChangedIffCountsDiffer ==
    \A i \in TrackedCalls :
        LET prev == unwrap(calls[i].prev)
            curr == calls[i].e
        IN (is_some(prev.session_id) /\ is_some(curr.session_id)) =>
            /\ is_some(calls[i].ann) <=>
                 (prev.entry_count # curr.entry_count
                    /\ (prev.entry_count # 0 \/ curr.entry_count # 0))
            /\ is_some(calls[i].ann) => unwrap(calls[i].ann).ann_type = "Count"
            /\ is_none(calls[i].ann) => calls[i].series_id \notin DOMAIN announcements

\* one series changed its count with both counts non-zero and announced Count,
\* another kept a non-zero count across two snapshots with session and stayed silent
C3_Witness ==
    /\ pc = "send"
    /\ \E i, j \in TrackedCalls :
        /\ is_some(calls[i].ann)
        /\ unwrap(calls[i].ann).ann_type = "Count"
        /\ unwrap(calls[i].prev).entry_count > 0
        /\ calls[i].e.entry_count > 0
        /\ is_some(unwrap(calls[j].prev).session_id)
        /\ is_some(calls[j].e.session_id)
        /\ unwrap(calls[j].prev).entry_count = calls[j].e.entry_count
        /\ calls[j].e.entry_count > 0
        /\ is_none(calls[j].ann)

\* C4: prev with session and curr without yields Closed iff prev.entry_count > 0;
\* a close with zero entries yields nothing.
C4_ClosedIffEntries ==
    \A i \in TrackedCalls :
        LET prev == unwrap(calls[i].prev)
            curr == calls[i].e
        IN (is_some(prev.session_id) /\ is_none(curr.session_id)) =>
            /\ is_some(calls[i].ann) <=> prev.entry_count > 0
            /\ is_some(calls[i].ann) => unwrap(calls[i].ann).ann_type = "Closed"
            /\ is_none(calls[i].ann) => calls[i].series_id \notin DOMAIN announcements

\* one series closed with entries and announced Closed, another closed with zero
\* entries and stayed silent
C4_Witness ==
    /\ pc = "send"
    /\ \E i, j \in TrackedCalls :
        /\ is_some(calls[i].ann)
        /\ unwrap(calls[i].ann).ann_type = "Closed"
        /\ unwrap(calls[i].prev).entry_count > 0
        /\ is_some(unwrap(calls[j].prev).session_id)
        /\ unwrap(calls[j].prev).entry_count = 0
        /\ is_none(calls[j].e.session_id)
        /\ is_none(calls[j].ann)

\* C5: after every call of update with curr the slot holds exactly curr, with or
\* without announcement, and a slot that holds a snapshot never becomes Unseen.
C5_SlotHoldsCurr ==
    /\ [](\A i \in DOMAIN calls :
            /\ calls[i].stored = Some(calls[i].e)
            /\ (\A j \in DOMAIN calls : j > i => calls[j].series_id # calls[i].series_id)
                 => series_state[calls[i].series_id].race_guide = Some(calls[i].e))
    /\ [][\A s \in DOMAIN series_state :
            is_some(series_state[s].race_guide) =>
                s \in DOMAIN series_state' /\ is_some(series_state'[s].race_guide)]_vars

\* a tracked slot was replaced by a different snapshot without any announcement
C5_Witness ==
    /\ pc = "send"
    /\ \E i \in TrackedCalls :
        /\ is_none(calls[i].ann)
        /\ unwrap(calls[i].prev) # calls[i].e
        /\ series_state[calls[i].series_id].race_guide = Some(calls[i].e)

\* index of the first entry of the guide for series s
FirstIndex(s) ==
    CHOOSE i \in DOMAIN guide :
        guide[i].series_id = s /\ \A j \in 1..(i - 1) : guide[j].series_id # s

\* C6: of several guide entries for one series only the first is passed to
\* update: one slot update (to that entry), at most one announcement.
C6_FirstEntryOnly ==
    pc = "send" =>
        \A s \in DOMAIN series_state :
            LET mine == {i \in DOMAIN calls : calls[i].series_id = s}
            IN IF \E k \in DOMAIN guide : guide[k].series_id = s
               THEN /\ Cardinality(mine) = 1
                    /\ \A i \in mine : calls[i].e = guide[FirstIndex(s)]
                    /\ series_state[s].race_guide = Some(guide[FirstIndex(s)])
                    /\ s \in DOMAIN announcements =>
                         announcements[s].curr = guide[FirstIndex(s)]
               ELSE mine = {}

\* the guide listed a tracked series twice with different entries; the slot
\* holds the first and the announcement is about the first
C6_Witness ==
    /\ pc = "send"
    /\ Len(guide) = 2
    /\ guide[1].series_id = guide[2].series_id
    /\ guide[1] # guide[2]
    /\ guide[1].series_id \in DOMAIN announcements
    /\ announcements[guide[1].series_id].curr = guide[1]
    /\ Classify(SeriesFeed(guide[1].series_id), guide[1], guide[2]) # None
    /\ Len(calls) = 1

\* the sessions of the guide whose series is known
KnownSessions ==
    LET IsKnown(e) == e.series_id \in DOMAIN series_state
    IN SelectSeq(guide, IsKnown)

\* C7: a guide entry with an unknown series id is ignored: the pass does not
\* fail, creates no slot and no announcement for it, and treats the known
\* series as if the entry were absent.
C7_UnknownSeriesIgnored ==
    [][pc = "fetched" =>
        LET without == ProcessSessions(KnownSessions,
                [state |-> series_state, seen |-> {},
                 announcements |-> EmptyMap, calls |-> <<>>])
        IN /\ pc' = "send"
           /\ DOMAIN series_state' = DOMAIN series_state
           /\ DOMAIN announcements' \subseteq DOMAIN series_state
           /\ \A i \in DOMAIN calls' : calls'[i].series_id \in DOMAIN series_state
           /\ series_state' = without.state
           /\ announcements' = without.announcements
           /\ calls' = without.calls]_vars

\* the guide led with an entry of an unknown series, followed by an entry of a
\* known series that was diffed and announced
C7_Witness ==
    /\ pc = "send"
    /\ Len(guide) = 2
    /\ guide[1].series_id \notin DOMAIN series_state
    /\ guide[2].series_id \in DOMAIN announcements
    /\ seen = {guide[1].series_id, guide[2].series_id}

(***************************************************************************)
(* Properties of the matcher, checked under SpecMatch.                     *)
(***************************************************************************)
\* the watch was evaluated against an announcement of kind t
Evaluated(t) ==
    /\ wanted \in {"yes", "no"}
    /\ msgs[unwrap(reg).series_id].ann_type = t

\* the announcement the watch was evaluated against
TheAnn == msgs[unwrap(reg).series_id]

\* the current entry count lies in [min_reg, max_reg]
InBand ==
    /\ TheAnn.curr.entry_count >= unwrap(reg).min_reg
    /\ TheAnn.curr.entry_count <= unwrap(reg).max_reg

\* the count went from below min_reg to above max_reg
JumpedOverBand ==
    /\ TheAnn.prev.entry_count < unwrap(reg).min_reg
    /\ TheAnn.curr.entry_count > unwrap(reg).max_reg

\* C8 as stated: a Count announcement matches iff the current count is in
\* [min_reg, max_reg] or the split count changed, and on no other condition.
C8_Original ==
    Evaluated("Count") => (wanted = "yes" <=> (InBand \/ splits_changed(TheAnn)))

\* C8 amended: a Count announcement matches iff the current count is in
\* [min_reg, max_reg], or the count jumped from below min_reg to above max_reg,
\* or the split count changed.
C8_CountMatch ==
    Evaluated("Count") =>
        (wanted = "yes" <=> (InBand \/ JumpedOverBand \/ splits_changed(TheAnn)))

\* a Count announcement matched only because the count jumped over the band
C8_Witness ==
    /\ Evaluated("Count")
    /\ wanted = "yes"
    /\ JumpedOverBand
    /\ ~InBand
    /\ ~splits_changed(TheAnn)

\* C35: a Count announcement whose previous count is below the watch's min_reg
\* and whose current count is above its max_reg matches the watch.
C35_JumpOverBandMatches == (Evaluated("Count") /\ JumpedOverBand) => wanted = "yes"

\* a watch with the band 1 to 1 matched a count that went from 0 to 2
C35_Witness ==
    /\ Evaluated("Count")
    /\ wanted = "yes"
    /\ unwrap(reg).min_reg = 1
    /\ unwrap(reg).max_reg = 1
    /\ TheAnn.prev.entry_count = 0
    /\ TheAnn.curr.entry_count = 2

\* C9: a Count announcement whose current count is outside [min_reg, max_reg]
\* still matches whenever splits_changed() is true.
C9_SplitChangeAlwaysMatches ==
    (Evaluated("Count") /\ ~InBand /\ splits_changed(TheAnn)) => wanted = "yes"

\* a Count announcement below the band matched because the split count changed
C9_Witness ==
    /\ Evaluated("Count")
    /\ wanted = "yes"
    /\ TheAnn.curr.entry_count < unwrap(reg).min_reg
    /\ splits_changed(TheAnn)

\* a Closed announcement of series 2 whose previous snapshot had n entries
ClosedWith(n) ==
    Announcement_new(SeriesFeed(2),
        [series_id |-> 2, session_id |-> Some(1), entry_count |-> n],
        [series_id |-> 2, session_id |-> None, entry_count |-> 0], "Closed")

\* a watch on series 2 with notify_on_close and the given min_reg
CloseWatch(m) ==
    [channel |-> 1, series_id |-> 2, min_reg |-> m, max_reg |-> m + 1,
     open |-> FALSE, close |-> TRUE]

C11_OpenMatch ==
    Evaluated("Open") => (wanted = "yes" <=> unwrap(reg).open)

\* a watch with the open flag matched an Open announcement whose counts are
\* outside its band
C11_Witness ==
    /\ Evaluated("Open")
    /\ wanted = "yes"
    /\ ~InBand
    /\ TheAnn.prev.entry_count > unwrap(reg).max_reg


(***************************************************************************)
(* num_splits over its arguments.                                          *)
(***************************************************************************)
\* a race guide entry with any entry count and a series with any split threshold
SplitsInit ==
    /\ PollInit /\ MatchIdle /\ DispatchIdle /\ RestIdle
    /\ splits \in {Some([entry_count |-> c, split_at |-> s, result |-> None]) :
                      c \in 0..MaxEntries, s \in 1..MaxSplitAt}

\* Announcement::splits_changed and the rendering call num_splits
ComputeSplits ==
    /\ is_some(splits)
    /\ is_none(unwrap(splits).result)
    /\ splits' = Some([unwrap(splits) EXCEPT
                          !.result = Some(num_splits(unwrap(splits), unwrap(splits).split_at))])
    /\ UNCHANGED <<pollVars, retryVars, matchVars, dispVars, syncVars, storeVars, taskVars>>

NextSplits == ComputeSplits

SpecSplits == SplitsInit /\ [][NextSplits]_vars

\* C12: num_splits is 1 + floor((entry_count - 1) / split_threshold) for an entry
\* count of 1 or more (1 entry at threshold 10 is 1 split, 21 entries are 3), and
\* 1 or 0 for an entry count of 0.
C12_NumSplits ==
    (is_some(splits) /\ is_some(unwrap(splits).result)) =>
        LET c == unwrap(splits).entry_count
            s == unwrap(splits).split_at
            r == unwrap(unwrap(splits).result)
        IN /\ c >= 1 => r = 1 + ((c - 1) \div s)
           /\ c = 0 => r \in {0, 1}
           /\ (c = 1 /\ s = 10) => r = 1
           /\ (c = 21 /\ s = 10) => r = 3

\* 21 entries at a threshold of 10 were computed to be 3 splits
C12_Witness ==
    /\ is_some(splits)
    /\ unwrap(splits).entry_count = 21
    /\ unwrap(splits).split_at = 10
    /\ unwrap(splits).result = Some(3)

(***************************************************************************)
(* Notification dispatcher (announce, Messenger).                          *)
(***************************************************************************)
\* the payload limit Messenger::add compares with
PayloadLimit == 1950

\* series the dispatched watches follow
DispatchSeries == {1, 2, 3}

\* byte lengths msg.to_string() can have: two lines of 900 fill 1802 bytes, 900
\* and 1048 fill 1950, 900 and 1049 fill 1951, a line of 1951 is over the limit
\* by itself
LineLens == {900, 1048, 1049, 1951}

\* the rows of table reg dispatched here: one per (channel, series)
DispatchRow ==
    [channel : ChannelIds, series_id : DispatchSeries, min_reg : {0}, max_reg : {1},
     open : BOOLEAN, close : {FALSE}]

\* the rows query_regs yields, in the order the query returns them
RowSeqs ==
    UNION {{rows \in [1..n -> DispatchRow] :
               \A i, j \in 1..n :
                   (i # j) => (rows[i].channel # rows[j].channel
                                  \/ rows[i].series_id # rows[j].series_id)} :
           n \in 0..MaxWatches}

\* Db::regs: the rows grouped by channel, each group in query order
GroupByChannel(rows) ==
    [ch \in {rows[i].channel : i \in DOMAIN rows} |->
        SelectSeq(rows, LAMBDA r : r.channel = ch)]

\* the Open announcement of series id: a session appeared with no entries
OpenAnnouncement(id) ==
    unwrap(update([series |-> SeriesFeed(id),
                   race_guide |-> Some([series_id |-> id, session_id |-> None,
                                        entry_count |-> 0])],
                  [series_id |-> id, session_id |-> Some(1), entry_count |-> 0]).ann)

\* the announcement maps dispatched here
DispatchMaps == {[id \in ids |-> OpenAnnouncement(id)] : ids \in SUBSET DispatchSeries}

\* Messenger::new
Messenger_new(ch) == [ch |-> ch, buf |-> <<>>]

\* buf.len(): every line in the buffer is followed by one newline
RECURSIVE BufLen(_)
BufLen(buf) == IF buf = <<>> THEN 0 ELSE Head(buf).len + 1 + BufLen(Tail(buf))

\* mutant of NeedsFlush: a buffer that would be exactly at the limit is flushed
NeedsFlush_AtLimit(buf, line) == BufLen(buf) + 1 + line.len >= PayloadLimit

\* Messenger::add, self.buf.len() + 1 + line.len() > 1950
NeedsFlush(buf, line) == BufLen(buf) + 1 + line.len > PayloadLimit

\* mutant of HasText: an empty buffer is sent too
HasText_Always(buf) == TRUE

\* Messenger::flush, !self.buf.is_empty()
HasText(buf) == buf # <<>>

\* mutant of PushLine: the line goes in front of the buffer
PushLine_InFront(buf, line) == <<line>> \o buf

\* Messenger::add, buf.push_str(line); buf.push('\n')
PushLine(buf, line) == Append(buf, line)

\* the result of the next call of ChannelId::say, out being the calls made so far
SayOk(out) == Len(out) >= Len(say_results) \/ say_results[Len(out) + 1]

\* mutant of flush: the buffer is kept after it was sent
flush_KeepsBuf(m, out) ==
    IF HasText(m.buf)
    THEN [msger |-> m,
          outbox |-> Append(out, [ch |-> m.ch, text |-> m.buf, ok |-> SayOk(out)])]
    ELSE [msger |-> m, outbox |-> out]

\* mutant of flush: the buffer is cleared only when say succeeded
flush_KeepOnError(m, out) ==
    IF HasText(m.buf)
    THEN [msger |-> IF SayOk(out) THEN [m EXCEPT !.buf = <<>>] ELSE m,
          outbox |-> Append(out, [ch |-> m.ch, text |-> m.buf, ok |-> SayOk(out)])]
    ELSE [msger |-> m, outbox |-> out]

\* Messenger::flush: a non-empty buffer is handed to ChannelId::say and cleared;
\* an error of say is printed and changes nothing else
flush(m, out) ==
    IF HasText(m.buf)
    THEN [msger |-> [m EXCEPT !.buf = <<>>],
          outbox |-> Append(out, [ch |-> m.ch, text |-> m.buf, ok |-> SayOk(out)])]
    ELSE [msger |-> m, outbox |-> out]

\* Messenger::add
add(m, out, line) ==
    LET f == IF NeedsFlush(m.buf, line) THEN flush(m, out)
             ELSE [msger |-> m, outbox |-> out]
    IN [msger |-> [f.msger EXCEPT !.buf = PushLine(@, line)], outbox |-> f.outbox]

\* mutant of Lookup: the watch is given whichever announcement there is
Lookup_AnyMessage(m, r) ==
    IF DOMAIN m = {} THEN None ELSE Some(m[CHOOSE k \in DOMAIN m : TRUE])

\* announce, msgs.get(&reg.series_id)
Lookup(m, r) == IF r.series_id \in DOMAIN m THEN Some(m[r.series_id]) ELSE None

\* the watch r gets a line for the batch msgs
Matches(r) == is_some(Lookup(msgs, r)) /\ wants(r, unwrap(Lookup(msgs, r)))

\* announce is called with the watch table and one batch
DispatchInit ==
    /\ PollInit /\ SplitsIdle /\ RestIdle
    /\ reg = None
    /\ wanted = "idle"
    /\ msgs \in DispatchMaps
    /\ regs \in {GroupByChannel(rows) : rows \in RowSeqs}
    /\ left = DOMAIN regs
    /\ todo = <<>>
    /\ msger = None
    /\ outbox = <<>>
    /\ say_results = <<>>
    /\ a_pc = "channels"

\* mutant of to_reg: max_reg is read from the min_reg column
to_reg_MinTwice(row) ==
    [guild |-> row.guild, channel |-> row.channel, series_id |-> row.series_id,
     min_reg |-> row.min_reg, max_reg |-> row.min_reg, open |-> row.open, close |-> row.close]

\* to_reg: a Reg from a row of the join (series_name, which no operation of the
\* store reads, is left out)
to_reg(row) ==
    [guild |-> row.guild, channel |-> row.channel, series_id |-> row.series_id,
     min_reg |-> row.min_reg, max_reg |-> row.max_reg, open |-> row.open, close |-> row.close]

\* mutant of ChannelWatches: the watches of the channel are read from the table
\* when its turn comes
ChannelWatches_Requery(ch) ==
    LET rows == {to_reg(x) : x \in {y \in regtab :
                     y.channel = ch /\ \E t \in sertab : t.series_id = y.series_id}}
    IN CHOOSE f \in [1..Cardinality(rows) -> rows] :
           \A i, j \in DOMAIN f : (i # j) => (f[i] # f[j])

\* for (ch, regs) in reg: the watches of channel ch in the map announce was given
ChannelWatches(ch) == regs[ch]

\* for (ch, regs) in reg: the next channel, in the HashMap's order
AnnounceChannel(ch) ==
    /\ a_pc = "channels"
    /\ ch \in left
    /\ left' = left \ {ch}
    /\ todo' = ChannelWatches(ch)
    /\ msger' = Some(Messenger_new(ch))
    /\ a_pc' = "watches"
    /\ UNCHANGED <<msgs, reg, wanted, regs, outbox, say_results>>
    /\ UNCHANGED <<pollVars, retryVars, splitVars, syncVars, storeVars, taskVars>>

\* for reg in &regs: one watch of the current channel; its line is len bytes long
AnnounceWatch(len) ==
    /\ a_pc = "watches"
    /\ todo # <<>>
    /\ LET r == Head(todo)
           a == add(unwrap(msger), outbox, [series_id |-> r.series_id, len |-> len])
       IN IF Matches(r)
          THEN msger' = Some(a.msger) /\ outbox' = a.outbox
          ELSE UNCHANGED <<msger, outbox>>
    /\ todo' = Tail(todo)
    /\ UNCHANGED <<msgs, reg, wanted, regs, left, say_results, a_pc>>
    /\ UNCHANGED <<pollVars, retryVars, splitVars, syncVars, storeVars, taskVars>>

\* msger.flush() after the last watch of the channel
AnnounceFlush ==
    /\ a_pc = "watches"
    /\ todo = <<>>
    /\ outbox' = flush(unwrap(msger), outbox).outbox
    /\ msger' = None
    /\ a_pc' = "channels"
    /\ UNCHANGED <<msgs, reg, wanted, regs, left, todo, say_results>>
    /\ UNCHANGED <<pollVars, retryVars, splitVars, syncVars, storeVars, taskVars>>

\* announce returns
AnnounceDone ==
    /\ a_pc = "channels"
    /\ left = {}
    /\ a_pc' = "done"
    /\ UNCHANGED <<msgs, reg, wanted, regs, left, todo, msger, outbox, say_results>>
    /\ UNCHANGED <<pollVars, retryVars, splitVars, syncVars, storeVars, taskVars>>

NextAnnounce ==
    \/ \E ch \in ChannelIds : AnnounceChannel(ch)
    \/ a_pc = "watches" /\ \E len \in LineLens : AnnounceWatch(len)
    \/ AnnounceFlush
    \/ AnnounceDone

SpecAnnounce == DispatchInit /\ [][NextAnnounce]_vars

\* the messages handed to the transport for channel ch, in order
Sent(ch) == SelectSeq(outbox, LAMBDA m : m.ch = ch)

\* the lines of a sequence of messages, in order
RECURSIVE Lines(_)
Lines(ms) == IF ms = <<>> THEN <<>> ELSE Head(ms).text \o Lines(Tail(ms))

\* the series ids of a sequence of watches or of lines
SeriesOf(seq) == [i \in DOMAIN seq |-> seq[i].series_id]

\* the byte lengths of a sequence of lines
LensOf(seq) == [i \in DOMAIN seq |-> seq[i].len]

\* the watches of channel ch evaluated so far
Evaluated_Watches(ch) ==
    IF ch \in left THEN <<>>
    ELSE IF is_some(msger) /\ unwrap(msger).ch = ch
         THEN SubSeq(regs[ch], 1, Len(regs[ch]) - Len(todo))
         ELSE regs[ch]

\* the lines channel ch was given so far: sent, or still in its Messenger
Given(ch) ==
    Lines(Sent(ch)) \o (IF is_some(msger) /\ unwrap(msger).ch = ch
                        THEN unwrap(msger).buf ELSE <<>>)

\* C13: no message handed to the transport is longer than 1950 characters, for
\* every sequence of lines.
C13_MessagesWithinLimit ==
    \A i \in DOMAIN outbox : BufLen(outbox[i].text) <= PayloadLimit

\* C14 as stated: three lines of 900 characters for one channel give two
\* messages, the first one 1801 characters long, the second the third line alone.
C14_Original ==
    a_pc = "done" =>
        \A ch \in DOMAIN regs :
            LensOf(Lines(Sent(ch))) = <<900, 900, 900>> =>
                /\ Len(Sent(ch)) = 2
                /\ BufLen(Sent(ch)[1].text) = 1801
                /\ Len(Sent(ch)[2].text) = 1

\* a step of announce in which a line is added to the Messenger
AddsLine == a_pc = "watches" /\ todo # <<>> /\ Matches(Head(todo))

\* C14: a line is added after the buffer was sent as a message exactly when the
\* buffer is not empty and buffer length + 1 + line length exceeds 1950, where
\* the buffer length counts a newline after every line; else it is appended and
\* nothing is sent.  Three lines of 900 give two messages: the first two lines,
\* 1802 characters, then the third line alone.
C14_FlushPolicy ==
    /\ [](a_pc = "done" =>
            \A ch \in DOMAIN regs :
                LensOf(Lines(Sent(ch))) = <<900, 900, 900>> =>
                    /\ Len(Sent(ch)) = 2
                    /\ LensOf(Sent(ch)[1].text) = <<900, 900>>
                    /\ BufLen(Sent(ch)[1].text) = 1802
                    /\ LensOf(Sent(ch)[2].text) = <<900>>)
    /\ [][AddsLine =>
            LET buf == unwrap(msger).buf
                buf2 == unwrap(msger').buf
                line == buf2[Len(buf2)]
            IN IF buf # <<>> /\ BufLen(buf) + 1 + line.len > PayloadLimit
               THEN /\ Len(outbox') = Len(outbox) + 1
                    /\ outbox'[Len(outbox')].text = buf
                    /\ SubSeq(outbox', 1, Len(outbox)) = outbox
                    /\ buf2 = <<line>>
               ELSE /\ outbox' = outbox
                    /\ buf2 = Append(buf, line)]_vars

\* three lines of 900 went to one channel as a message of 1802 and one of 901
C14_Witness ==
    /\ a_pc = "done"
    /\ \E ch \in DOMAIN regs :
          /\ Len(Sent(ch)) = 2
          /\ LensOf(Sent(ch)[1].text) = <<900, 900>>
          /\ BufLen(Sent(ch)[1].text) = 1802
          /\ LensOf(Sent(ch)[2].text) = <<900>>

\* C15: for every channel, the lines of its messages, concatenated in sending
\* order, are the announcements of its matching watches in the order the watches
\* are evaluated.
C15_OrderKept ==
    \A ch \in DOMAIN regs :
        SeriesOf(Given(ch)) = SeriesOf(SelectSeq(Evaluated_Watches(ch), Matches))

\* a channel whose second watch did not match got its first and third
\* announcement in two messages
C15_Witness ==
    /\ a_pc = "done"
    /\ \E ch \in DOMAIN regs :
          /\ Len(regs[ch]) = 3
          /\ Matches(regs[ch][1]) /\ ~Matches(regs[ch][2]) /\ Matches(regs[ch][3])
          /\ Len(Sent(ch)) = 2
          /\ SeriesOf(Lines(Sent(ch))) = <<regs[ch][1].series_id, regs[ch][3].series_id>>

\* C16: a channel none of whose watches matches is sent nothing, and no message
\* handed to the transport is empty.
C16_NothingToSay ==
    /\ \A i \in DOMAIN outbox : outbox[i].text # <<>>
    /\ \A ch \in ChannelIds :
          (ch \notin DOMAIN regs \/ \A i \in DOMAIN regs[ch] : ~Matches(regs[ch][i]))
              => Sent(ch) = <<>>

\* announce went through a channel with watches, none matching, and sent it
\* nothing, while the other channel got a message
C16_Witness ==
    /\ a_pc = "done"
    /\ \E ch \in DOMAIN regs :
          /\ \A i \in DOMAIN regs[ch] : ~Matches(regs[ch][i])
          /\ Sent(ch) = <<>>
          /\ \E other \in DOMAIN regs : Sent(other) # <<>>

\* how often a line of series sid occurs in a sequence of lines
OccursIn(lines, sid) == Cardinality({k \in DOMAIN lines : lines[k].series_id = sid})

\* C40: every line added for a channel is, once the channel is done, in exactly
\* one message handed to the transport for that channel, and once in it; until
\* then it is in one message or in the buffer.  The last flush of a channel
\* hands over all the lines still buffered and leaves the buffer empty.
C40_EveryLineInOneMessage ==
    /\ [](\A ch \in DOMAIN regs :
            \A i \in DOMAIN Evaluated_Watches(ch) :
                Matches(Evaluated_Watches(ch)[i]) =>
                    OccursIn(Given(ch), Evaluated_Watches(ch)[i].series_id) = 1)
    /\ [][(a_pc = "watches" /\ todo = <<>>) =>
             /\ flush(unwrap(msger), outbox).msger.buf = <<>>
             /\ Lines(outbox') = Lines(outbox) \o unwrap(msger).buf
             /\ msger' = None]_vars

\* announce is done: a channel got three lines, two in a message sent by add
\* and the third in the message of the last flush
C40_Witness ==
    /\ a_pc = "done"
    /\ msger = None
    /\ \E ch \in DOMAIN regs :
          /\ Len(Sent(ch)) = 2
          /\ Len(Sent(ch)[1].text) = 2
          /\ Len(Sent(ch)[2].text) = 1
          /\ \A i \in DOMAIN regs[ch] : OccursIn(Lines(Sent(ch)), regs[ch][i].series_id) = 1

(***************************************************************************)
(* announce with a transport that fails: in SpecSend every watch matches   *)
(* and the first MaxSays calls of ChannelId::say succeed or fail.          *)
(***************************************************************************)
MaxSays == 2

\* the batch that has an announcement for every series dispatched here
FullBatch == [id \in DispatchSeries |-> OpenAnnouncement(id)]

\* announce is called with watches that all want the batch
SendInit ==
    /\ PollInit /\ SplitsIdle /\ RestIdle
    /\ reg = None
    /\ wanted = "idle"
    /\ msgs = FullBatch
    /\ regs \in {GroupByChannel(rows) :
                    rows \in {rs \in RowSeqs : \A i \in DOMAIN rs : rs[i].open}}
    /\ left = DOMAIN regs
    /\ todo = <<>>
    /\ msger = None
    /\ outbox = <<>>
    /\ say_results \in [1..MaxSays -> BOOLEAN]
    /\ a_pc = "channels"

\* byte lengths of the lines sent here: two lines of 900 fit one message, a line
\* of 1049 does not fit behind another line
SendLens == {900, 1049}

NextSend ==
    \/ \E ch \in ChannelIds : AnnounceChannel(ch)
    \/ a_pc = "watches" /\ \E len \in SendLens : AnnounceWatch(len)
    \/ AnnounceFlush
    \/ AnnounceDone

SpecSend == SendInit /\ [][NextSend]_vars

\* the messages i and j of the outbox have a line of the same watch
ShareLine(i, j) ==
    /\ outbox[i].ch = outbox[j].ch
    /\ \E k \in DOMAIN outbox[i].text :
          OccursIn(outbox[j].text, outbox[i].text[k].series_id) > 0

\* C32: a message the transport failed to send is not sent again, and it stops
\* nothing: when announce returns, every channel of the batch has been handed
\* the lines of all its matching watches, whichever calls of say failed.
C32_FailedSendStopsNothing ==
    /\ \A i, j \in DOMAIN outbox : (~outbox[i].ok /\ i # j) => ~ShareLine(i, j)
    /\ a_pc = "done" =>
          \A ch \in DOMAIN regs :
              SeriesOf(Lines(Sent(ch))) = SeriesOf(SelectSeq(regs[ch], Matches))

\* announce returned after a failed message to one channel, a later message to
\* the same channel and a later message to the other channel, both sent
C32_Witness ==
    /\ a_pc = "done"
    /\ \E i, j, k \in DOMAIN outbox :
          /\ i < j /\ j < k
          /\ ~outbox[i].ok /\ outbox[j].ok /\ outbox[k].ok
          /\ outbox[j].ch = outbox[i].ch
          /\ outbox[k].ch # outbox[i].ch

(***************************************************************************)
(* Claims on the retry of the poller.                                      *)
(***************************************************************************)
\* the smaller of two durations
Min(a, b) == IF a < b THEN a ELSE b

\* C17: the first retry after a completed poll iteration waits the 1 s floor:
\* a successful iteration puts the backoff back at 1 s.
C17_BackoffResetAfterSuccess ==
    (pc = "backoff" /\ polled /\ streak = 1) => delay = DefBackoff

\* C18: in a run of consecutive failures the delay before the k-th retry is
\* min(2^(k-1), 120) seconds, never above 120 nor below 1.
C18_DelayDoubles ==
    pc = "backoff" =>
        /\ delay = Min(2^(streak - 1), MaxBackoff)
        /\ delay <= MaxBackoff
        /\ delay >= DefBackoff

\* C19: a failing fetch (login, seasons or series, race guide) ends the run of
\* iracing_loop with nothing announced and no slot changed, and the slots are
\* kept as they are until the next race guide is diffed against them.
C19_ErrorAbortsIteration ==
    /\ [][(pc' = "backoff" /\ pc # "backoff") =>
              /\ pc \in {"login", "sync", "top"}
              /\ series_state' = series_state
              /\ announcements = EmptyMap /\ announcements' = EmptyMap
              /\ calls = <<>> /\ calls' = <<>>]_vars
    /\ [][(pc = "backoff" \/ pc = "login" \/ pc = "sync") =>
              (\A id \in DOMAIN series_state :
                  id \in DOMAIN series_state' /\ series_state'[id] = series_state[id])]_vars

\* after a failed run, a guide was diffed against the snapshot stored before the
\* failure and produced an announcement
C19_Witness ==
    /\ pc = "send"
    /\ streak >= 1
    /\ polled
    /\ \E i \in DOMAIN calls : is_some(calls[i].prev) /\ is_some(calls[i].ann)

\* C20: the poller never ends: every failed run is followed by a sleep and a new
\* run, whatever the number of failures, and the fatal panic of the Ok arm is
\* never reached.
C20_PollerKeepsRunning ==
    /\ pc \in {"login", "sync", "top", "fetched", "send", "backoff", "panicked"}
    /\ pc = "backoff" => ENABLED BackoffDone
    /\ pc = "login" => ENABLED Login

\* the poller logs in again after five failed runs in a row
C20_Witness ==
    /\ pc = "login"
    /\ streak = 5
    /\ backoff = 32

(***************************************************************************)
(* The tasks: the poller, listen_task and a gateway event handler, the     *)
(* channel between the first two and the mutex around HandlerState.  Here  *)
(* an event is named by its kind and the number of its poll iteration.     *)
(***************************************************************************)
\* tokio::sync::mpsc::channel::<RaceGuideEvent>(2)
ChanCap == 2

\* the tasks that can be inside a network call or hold the mutex
Tasks == {"P", "L", "H"}

\* the gateway events handled: a slash command, an autocomplete request, a
\* deleted channel, a deleted guild
GatewayEvents == {"command", "autocomplete", "channel_delete", "guild_delete"}

\* RaceGuideEvent::Seasons and RaceGuideEvent::Announcements
SeasonsEvent == [kind |-> "Seasons", n |-> 0]
AnnouncementsEvent(n) == [kind |-> "Announcements", n |-> n]

\* mutant of chan_send: the channel keeps the newest event only
chan_send_Overwrite(ch, e) == <<e>>

\* Sender::send once the channel has room
chan_send(ch, e) == Append(ch, e)

\* mutant of HasRoom: the sender never waits
HasRoom_Always(ch) == TRUE

\* Sender::send completes at once: there is room
HasRoom(ch) == Len(ch) < ChanCap

\* mutant of DropGuard: the guard lives on after the block
DropGuard_Kept(t) == t

\* the MutexGuard of task t goes out of scope: the mutex is free
DropGuard(t) == "free"

\* task t is inside a network call: the poller logging in, fetching the catalog
\* or the race guide; listen_task in announce; the handler responding
InNetwork(t) ==
    CASE t = "P" -> pc \in {"login", "sync", "fetching"}
      [] t = "L" -> l_pc = "announce"
      [] t = "H" -> h_pc = "respond"

\* main: listen_task is spawned with the receiver, then the poller; the gateway
\* client waits for events
TasksInit ==
    /\ PollInit /\ MatchIdle /\ DispatchIdle /\ SplitsIdle /\ SyncIdle /\ StoreIdle
    /\ chan = <<>>
    /\ iter = 0
    /\ produced = {}
    /\ dispatched = <<>>
    /\ l_pc = "recv"
    /\ l_evt = None
    /\ h_pc = "idle"
    /\ h_kind = "none"
    /\ mutex = "free"

\* what the poller steps of this specification leave alone
PollerFrame ==
    /\ UNCHANGED <<series_state, guide, seen, announcements, calls, life>>
    /\ UNCHANGED <<retryVars, matchVars, dispVars, splitVars, syncVars, storeVars>>
    /\ UNCHANGED <<l_pc, l_evt, h_pc, h_kind, mutex, dispatched>>

\* tx.send(event).await: the event is queued when there is room, the poller
\* waits while the channel is full, and the send fails (the error is printed)
\* when the receiver is gone
TrySend(e, next) ==
    IF l_pc = "dead" THEN pc' = next /\ UNCHANGED chan
    ELSE /\ HasRoom(chan)
         /\ chan' = chan_send(chan, e)
         /\ pc' = next

\* update_series_info at loop start: the catalog is fetched and sent
TaskSync ==
    /\ pc = "sync"
    /\ TrySend(SeasonsEvent, "top")
    /\ UNCHANGED <<iter, produced>>
    /\ PollerFrame

\* client.race_guide() is called: iteration iter + 1 begins its fetch
BeginFetch ==
    /\ pc = "top"
    /\ iter < MaxIter
    /\ iter' = iter + 1
    /\ pc' = "fetching"
    /\ UNCHANGED <<chan, produced>>
    /\ PollerFrame

\* the guide arrives and is diffed: there are announcements or not
EndFetch(any) ==
    /\ pc = "fetching"
    /\ IF any THEN produced' = produced \cup {iter} /\ pc' = "send"
              ELSE UNCHANGED produced /\ pc' = "sleep"
    /\ UNCHANGED <<chan, iter>>
    /\ PollerFrame

\* tx.send(RaceGuideEvent::Announcements(announcements)).await
SendAnnouncements ==
    /\ pc = "send"
    /\ TrySend(AnnouncementsEvent(iter), "sleep")
    /\ UNCHANGED <<iter, produced>>
    /\ PollerFrame

\* sleep_until(start + loop_interval) ends
Wake ==
    /\ pc = "sleep"
    /\ pc' = "top"
    /\ UNCHANGED <<chan, iter, produced>>
    /\ PollerFrame

\* what the steps of listen_task and of the handler leave alone
OtherFrame ==
    /\ UNCHANGED <<pollVars, retryVars, matchVars, dispVars, splitVars, syncVars>>
    /\ UNCHANGED <<regtab, sertab, st_seasons, resp, iter, produced>>

\* rx.recv().await returns the oldest event
ListenRecv ==
    /\ l_pc = "recv"
    /\ chan # <<>>
    /\ l_evt' = Some(Head(chan))
    /\ chan' = Tail(chan)
    /\ l_pc' = "lock"
    /\ UNCHANGED <<h_pc, h_kind, mutex, poisoned, dispatched>>
    /\ OtherFrame

\* state.lock().expect(..): the mutex is taken; on a poisoned mutex the task
\* panics and its receiver is dropped with the events it holds
ListenLock ==
    /\ l_pc = "lock"
    /\ mutex = "free"
    /\ IF poisoned
       THEN l_pc' = "dead" /\ l_evt' = None /\ chan' = <<>> /\ UNCHANGED mutex
       ELSE l_pc' = "locked" /\ mutex' = "L" /\ UNCHANGED <<l_evt, chan>>
    /\ UNCHANGED <<h_pc, h_kind, poisoned, dispatched>>
    /\ OtherFrame

\* under the lock: st.db.regs() for Announcements, st.seasons = s for Seasons;
\* then the guard is dropped.  A failing query panics with the guard alive.
ListenUnlock(ok) ==
    /\ l_pc = "locked"
    /\ IF unwrap(l_evt).kind = "Announcements"
       THEN IF ok
            THEN /\ l_pc' = "announce"
                 /\ mutex' = DropGuard("L")
                 /\ UNCHANGED <<l_evt, chan, poisoned>>
            ELSE /\ l_pc' = "dead"
                 /\ mutex' = "free"
                 /\ poisoned' = TRUE
                 /\ l_evt' = None
                 /\ chan' = <<>>
       ELSE /\ l_pc' = "recv"
            /\ mutex' = DropGuard("L")
            /\ l_evt' = None
            /\ UNCHANGED <<chan, poisoned>>
    /\ UNCHANGED <<h_pc, h_kind, dispatched>>
    /\ OtherFrame

\* announce(&http, reg, msgs).await returns
ListenAnnounced ==
    /\ l_pc = "announce"
    /\ dispatched' = Append(dispatched, unwrap(l_evt).n)
    /\ l_evt' = None
    /\ l_pc' = "recv"
    /\ UNCHANGED <<chan, h_pc, h_kind, mutex, poisoned>>
    /\ OtherFrame

\* the gateway hands an event to the handler
HandlerEvent(kind) ==
    /\ h_pc = "idle"
    /\ h_kind' = kind
    /\ h_pc' = IF kind = "command" THEN "resolve" ELSE "lock"
    /\ UNCHANGED <<chan, l_pc, l_evt, mutex, poisoned, dispatched>>
    /\ OtherFrame

\* resolve_series_id: the option parses, or the command is answered with an
\* error and ends; guild_delete of an unavailable guild ends without the lock
HandlerResolve(ok) ==
    /\ h_pc = "resolve"
    /\ h_pc' = IF ok THEN "lock" ELSE "respond"
    /\ UNCHANGED <<chan, l_pc, l_evt, h_kind, mutex, poisoned, dispatched>>
    /\ OtherFrame

\* guild_delete with incomplete.unavailable set does nothing
HandlerSkip ==
    /\ h_pc = "lock"
    /\ h_kind = "guild_delete"
    /\ h_pc' = "idle"
    /\ UNCHANGED <<chan, l_pc, l_evt, h_kind, mutex, poisoned, dispatched>>
    /\ OtherFrame

\* self.state.lock().expect(..) in the handler
HandlerLock ==
    /\ h_pc = "lock"
    /\ mutex = "free"
    /\ IF poisoned
       THEN h_pc' = "idle" /\ UNCHANGED mutex
       ELSE h_pc' = "locked" /\ mutex' = "H"
    /\ UNCHANGED <<chan, l_pc, l_evt, h_kind, poisoned, dispatched>>
    /\ OtherFrame

\* under the lock the handler reads st.seasons and the tables, then drops the
\* guard; a command for a series st.seasons does not hold and an autocomplete
\* whose query fails panic with the guard alive.  A command and an autocomplete
\* are answered next, the delete events end here.
HandlerUnlock(ok) ==
    /\ h_pc = "locked"
    /\ IF ok \/ h_kind \in {"channel_delete", "guild_delete"}
       THEN /\ mutex' = DropGuard("H")
            /\ h_pc' = IF h_kind \in {"command", "autocomplete"} THEN "respond" ELSE "idle"
            /\ UNCHANGED poisoned
       ELSE /\ mutex' = "free"
            /\ poisoned' = TRUE
            /\ h_pc' = "idle"
    /\ UNCHANGED <<chan, l_pc, l_evt, h_kind, dispatched>>
    /\ OtherFrame

\* create_interaction_response / create_autocomplete_response returns
HandlerResponded ==
    /\ h_pc = "respond"
    /\ h_pc' = "idle"
    /\ UNCHANGED <<chan, l_pc, l_evt, h_kind, mutex, poisoned, dispatched>>
    /\ OtherFrame

NextTasks ==
    \/ Login
    \/ TaskSync
    \/ BeginFetch
    \/ \E any \in BOOLEAN : EndFetch(any)
    \/ SendAnnouncements
    \/ Wake
    \/ ListenRecv
    \/ ListenLock
    \/ \E ok \in BOOLEAN : ListenUnlock(ok)
    \/ ListenAnnounced
    \/ \E kind \in GatewayEvents : HandlerEvent(kind)
    \/ \E ok \in BOOLEAN : HandlerResolve(ok)
    \/ HandlerSkip
    \/ HandlerLock
    \/ \E ok \in BOOLEAN : HandlerUnlock(ok)
    \/ HandlerResponded

SpecTasks == TasksInit /\ [][NextTasks]_vars

\* the iterations whose announcements wait in the channel
Queued == {chan[i].n : i \in {j \in DOMAIN chan : chan[j].kind = "Announcements"}}

\* the iteration whose announcements listen_task holds, if any
InHand ==
    IF is_some(l_evt) /\ unwrap(l_evt).kind = "Announcements" THEN {unwrap(l_evt).n} ELSE {}

\* the iterations whose announce call has returned
Dispatched == {dispatched[i] : i \in DOMAIN dispatched}

IsAnnouncements(e) == e.kind = "Announcements"

\* the iterations whose announcements wait in the channel, oldest first
QueuedSeq ==
    LET q == SelectSeq(chan, IsAnnouncements) IN [i \in DOMAIN q |-> q[i].n]

\* the iterations whose announcements listen_task has taken or will take from
\* the channel, in the order it handles them
Handled == dispatched \o (IF InHand = {} THEN <<>> ELSE <<unwrap(l_evt).n>>) \o QueuedSeq

\* the iterations whose announcements the poller has sent
SentBatches == produced \ (IF pc = "send" THEN {iter} ELSE {})

\* C38: as long as listen_task lives, the batches it has dispatched, holds and
\* will receive are exactly the batches the poller has sent, each once and in
\* the order sent; the channel never holds more than its capacity, and a send
\* completes only when there is room, appending the batch behind the waiting ones.
C38_InOrderExactlyOnce ==
    /\ [](l_pc # "dead" =>
             /\ {Handled[i] : i \in DOMAIN Handled} = SentBatches
             /\ \A i, j \in DOMAIN Handled : i < j => Handled[i] < Handled[j]
             /\ Len(chan) <= ChanCap)
    /\ [][(pc = "send" /\ pc' # "send" /\ l_pc # "dead") =>
             /\ Len(chan) < ChanCap
             /\ chan' = Append(chan, AnnouncementsEvent(iter))]_vars

\* the poller waits with the batch of iteration 3 while the channel is full of
\* the batches of iterations 1 and 2, and listen_task lives
C38_Witness ==
    /\ pc = "send"
    /\ iter = 3
    /\ Len(chan) = ChanCap
    /\ QueuedSeq = <<1, 2>>
    /\ l_pc \in {"recv", "lock", "locked"}

\* C22: whenever a task is inside a network call it does not hold the mutex,
\* and the mutex is free or held by a task that is not inside a network call.
C22_NoLockAcrossNetwork ==
    \A t \in Tasks :
        InNetwork(t) => /\ mutex # t
                        /\ (mutex = "free" \/ ~InNetwork(mutex))

\* listen_task is sending the messages of a batch while the handler holds the
\* mutex
C22_Witness ==
    /\ l_pc = "announce"
    /\ mutex = "H"
    /\ h_pc = "locked"

(***************************************************************************)
(* The catalog sync over the days (update_series_info in iracing_loop).    *)
(***************************************************************************)
\* struct Series as a later fetch reports it: the split threshold has changed
SeriesRevised(id) == [SeriesFeed(id) EXCEPT !.max_starters = @ + 1]

\* the series lists a fetch can return, keyed by series_id (series_by_id)
SeriesMaps ==
    UNION {{m \in [ids -> {SeriesFeed(id) : id \in ids} \cup {SeriesRevised(id) : id \in ids}] :
               \A id \in ids : m[id].series_id = id} : ids \in SUBSET SeriesIds}

\* Vec<Schedule> of a season in race week 1: without and with an entry for that week
ScheduleLists == {<<[race_week_num |-> 0]>>, <<[race_week_num |-> 0], [race_week_num |-> 1]>>}

\* struct Season with the fields SeasonInfo::new of db.rs reads
SeasonFeed(id, schedules) == [series_id |-> id, race_week |-> 1, schedules |-> schedules]

\* the seasons lists of n seasons a fetch can return
SeasonFeedLists(n) ==
    [1..n -> {SeasonFeed(id, sc) : id \in SeriesIds, sc \in ScheduleLists}]

\* season.schedules.iter().find(|w| w.race_week_num == season.race_week) is Some
HasSchedule(season) ==
    \E i \in DOMAIN season.schedules : season.schedules[i].race_week_num = season.race_week

\* SeasonInfo::new of db.rs: None for a season without a schedule entry for its week
db_SeasonInfo_new(series, season) ==
    IF HasSchedule(season)
    THEN Some([series_id |-> series.series_id, reg_official |-> series.min_starters,
               reg_split |-> series.max_starters, week |-> season.race_week])
    ELSE None

\* SeasonInfo::new of ir_watcher.rs, the one update_series_info calls: the season
\* is not read
SeasonInfo_new(series, season) ==
    [series_id |-> series.series_id, reg_official |-> series.min_starters,
     reg_split |-> series.max_starters]

\* season_infos: one SeasonInfo per slot of series_state
SeasonInfos(state) == [k \in DOMAIN state |-> SeasonInfo_new(state[k].series, Season(k))]

\* mutant of DateChanged: every iteration syncs
DateChanged_Always(now, last) == TRUE

\* now_utc.date_naive() != series_updated.date_naive()
DateChanged(now, last) == now # last

\* update_series_info with the fetched seasons and series: the catalog is sent as
\* RaceGuideEvent::Seasons; the unwrap panics on a season without its series
RunSync(kind, seasons, by_id, next) ==
    /\ sync_log' = Append(sync_log, [kind |-> kind, date |-> today])
    /\ LET r == SyncSeasons(seasons, by_id, series_state)
       IN IF r.panicked
          THEN pc' = "panicked" /\ UNCHANGED <<series_state, catalog, feed, series_updated>>
          ELSE /\ pc' = next
               /\ series_state' = r.state
               /\ catalog' = SeasonInfos(r.state)
               /\ feed' = Some([seasons |-> seasons, series |-> by_id])
               /\ series_updated' = today
    /\ UNCHANGED <<guide, seen, announcements, calls, life, today>>
    /\ UNCHANGED <<retryVars, matchVars, dispVars, splitVars, storeVars, taskVars>>

\* series_updated = Utc::now() and the sync before the loop
StartupSync(seasons, by_id) ==
    /\ pc = "sync"
    /\ RunSync("startup", seasons, by_id, "top")

\* top of an iteration on a new date: the sync, then series_updated = now_utc
DailySync(seasons, by_id) ==
    /\ pc = "top"
    /\ DateChanged(today, series_updated)
    /\ RunSync("top", seasons, by_id, "checked")

\* top of an iteration on the date of the last sync
SkipSync ==
    /\ pc = "top"
    /\ ~DateChanged(today, series_updated)
    /\ pc' = "checked"
    /\ UNCHANGED <<series_state, guide, seen, announcements, calls, life>>
    /\ UNCHANGED <<retryVars, matchVars, dispVars, splitVars, syncVars, storeVars, taskVars>>

\* the race guides the polls between two syncs return: empty, or one session that
\* is not open for registration yet
SyncGuides ==
    {<<>>} \cup {<<e>> : e \in {x \in RaceGuideEntry :
                                  x.entry_count = 0 /\ is_none(x.session_id)}}

\* the rest of the iteration: the guide g is fetched and diffed, the announcements
\* are sent, the loop sleeps
SyncPoll(g) ==
    /\ pc = "checked"
    /\ pc' = "top"
    /\ series_state' = ProcessSessions(g, [state |-> series_state, seen |-> {},
                                          announcements |-> EmptyMap, calls |-> <<>>]).state
    /\ polled' = TRUE
    /\ UNCHANGED <<guide, seen, announcements, calls, life, backoff, delay, streak>>
    /\ UNCHANGED <<matchVars, dispVars, splitVars, syncVars, storeVars, taskVars>>

\* midnight UTC passes
Tick ==
    /\ today < MaxDay
    /\ today' = today + 1
    /\ UNCHANGED <<pollVars, retryVars, matchVars, dispVars, splitVars, storeVars, taskVars>>
    /\ UNCHANGED <<catalog, feed, series_updated, sync_log>>

NextSync ==
    \/ Login
    \/ pc = "sync" /\ \E n \in 0..Cardinality(SeriesIds) :
          \E seasons \in SeasonFeedLists(n), by_id \in SeriesMaps : StartupSync(seasons, by_id)
    \/ pc = "top" /\ \E n \in 0..Cardinality(SeriesIds) :
          \E seasons \in SeasonFeedLists(n), by_id \in SeriesMaps : DailySync(seasons, by_id)
    \/ SkipSync
    \/ pc = "checked" /\ \E g \in SyncGuides : SyncPoll(g)
    \/ Tick

SpecSync == Init /\ [][NextSync]_vars

\* the series ids the seasons of a fetch name
SyncedIds(f) == {f.seasons[i].series_id : i \in DOMAIN f.seasons}

\* C23: after every catalog sync the record of each fetched series, as the diff
\* engine holds it and as the catalog publishes it, equals the latest fetch, also
\* for a series known from an earlier sync.
C23_RecordsEqualLatestFetch ==
    is_some(feed) =>
        \A id \in SyncedIds(unwrap(feed)) :
            /\ id \in DOMAIN series_state
            /\ series_state[id].series = unwrap(feed).series[id]
            /\ id \in DOMAIN catalog
            /\ catalog[id] = SeasonInfo_new(unwrap(feed).series[id], Season(id))

\* C24: after a catalog sync a series known before but missing from the fetched
\* feed is absent from the published catalog (the watch rows are left alone).
C24_MissingSeriesLeaveCatalog ==
    /\ is_some(feed) => DOMAIN catalog \subseteq SyncedIds(unwrap(feed))
    /\ regtab = {}

C26_SeasonWithoutScheduleSkipped ==
    is_some(feed) =>
        \A i \in DOMAIN unwrap(feed).seasons :
            LET season == unwrap(feed).seasons[i]
            IN is_none(db_SeasonInfo_new(unwrap(feed).series[season.series_id], season))
                   => season.series_id \notin DOMAIN catalog

(***************************************************************************)
(* The watch store and the commands that write it (src/src/db.rs,          *)
(* src/src/cmds.rs, guild_delete and channel_delete of src/src/main.rs).   *)
(***************************************************************************)
\* channels commands come from, and the guilds the gateway reports
WatchChannels == {1, 2, 3}
GuildIds == {1, 2}

\* command.guild_id: channels 1 and 2 belong to guild 1, channel 3 is a direct message
GuildOf(ch) == IF ch = 3 THEN None ELSE Some(1)

\* the options min_reg and max_reg of a command: both left out, or 2 and 1
RegOptions == {<<None, None>>, <<Some(2), Some(1)>>}

\* the pairs of the flags open and close the commands carry
FlagPairs == {<<TRUE, FALSE>>, <<FALSE, TRUE>>}

\* a row of table series
SeriesRow(info, active) ==
    [series_id |-> info.series_id, active |-> active,
     reg_official |-> info.reg_official, reg_split |-> info.reg_split, week |-> info.week]

\* Db::start_series_update: UPDATE series SET active=0
start_series_update(tab) == {[row EXCEPT !.active = 0] : row \in tab}

\* SeriesUpdater::upsert: INSERT .. active=1 .. ON CONFLICT DO UPDATE (series_id is
\* the primary key)
SeriesUpdater_upsert(tab, info) ==
    {row \in tab : row.series_id # info.series_id} \cup {SeriesRow(info, 1)}

\* Db::get_series: SELECT * FROM series WHERE active=1, keyed by series_id
get_series(tab) ==
    [id \in {row.series_id : row \in {x \in tab : x.active = 1}} |->
        LET row == CHOOSE x \in tab : x.series_id = id
        IN [series_id |-> id, reg_official |-> row.reg_official,
            reg_split |-> row.reg_split, week |-> row.week]]

\* the SeasonInfo the sync derives for series id of the feed
FeedInfo(id) ==
    unwrap(db_SeasonInfo_new(SeriesFeed(id), SeasonFeed(id, <<[race_week_num |-> 1]>>)))

\* all fetched series upserted, in any order (the rows have distinct keys)
RECURSIVE UpsertAll(_, _)
UpsertAll(tab, ids) ==
    IF ids = {} THEN tab
    ELSE LET id == CHOOSE x \in ids : TRUE
         IN UpsertAll(SeriesUpdater_upsert(tab, FeedInfo(id)), ids \ {id})

\* the command's Reg: defaults from the series' thresholds when an option is left out
NewReg(ch, sid, maybe_min, maybe_max, open, close, series) ==
    [guild |-> GuildOf(ch), channel |-> ch, series_id |-> sid,
     min_reg |-> IF is_some(maybe_min) THEN unwrap(maybe_min)
                 ELSE TruncDiv(series.reg_official, 2),
     max_reg |-> IF is_some(maybe_max) THEN unwrap(maybe_max)
                 ELSE TruncDiv(series.reg_split - series.reg_official, 2) + series.reg_official,
     open |-> open, close |-> close]

\* PRIMARY KEY(channel_id, series_id) of table reg
SameKey(a, b) == a.channel = b.channel /\ a.series_id = b.series_id

\* mutant of upsert_reg: a plain INSERT into a table without the primary key
upsert_reg_NoKey(tab, r) == tab \cup {r}

\* Db::upsert_reg: INSERT .. ON CONFLICT DO UPDATE SET min_reg, max_reg, open, close
upsert_reg(tab, r) ==
    IF \E x \in tab : SameKey(x, r)
    THEN {IF SameKey(x, r)
          THEN [x EXCEPT !.min_reg = r.min_reg, !.max_reg = r.max_reg,
                         !.open = r.open, !.close = r.close]
          ELSE x : x \in tab}
    ELSE tab \cup {r}

\* Db::delete_reg: DELETE FROM reg WHERE series_id=? AND channel_id=?
delete_reg(tab, ch, sid) == {x \in tab : ~(x.series_id = sid /\ x.channel = ch)}

\* Db::delete_channel: DELETE FROM reg WHERE channel_id=?
delete_channel(tab, ch) == {x \in tab : x.channel # ch}

\* Db::delete_guild: DELETE FROM reg WHERE guild_id=? (a NULL guild_id never matches)
delete_guild(tab, g) == {x \in tab : x.guild # Some(g)}

\* mutant of query_regs: the rows of reg are read without the join
query_regs_NoJoin(tab, series, filter) ==
    {to_reg(row) : row \in {x \in tab : x.channel \in filter}}

\* Db::query_regs: reg INNER JOIN series ON r.series_id = s.series_id; the filter
\* is the set of channels its WHERE clause admits
query_regs(tab, series, filter) ==
    {to_reg(row) : row \in {x \in tab :
                     x.channel \in filter /\ \E s \in series : s.series_id = x.series_id}}

\* Db::channel_regs: WHERE r.channel_id = ch
channel_regs(tab, series, ch) == query_regs(tab, series, {ch})

\* what the store's operations leave alone
StoreFrame ==
    UNCHANGED <<pollVars, retryVars, matchVars, dispVars, splitVars, syncVars, taskVars>>

\* the catalog sync's write to the store: every row inactive, the fetched series
\* upserted as active, the active rows published as st.seasons
SyncStore(ids) ==
    /\ ~poisoned
    /\ sertab' = UpsertAll(start_series_update(sertab), ids)
    /\ st_seasons' = get_series(sertab')
    /\ UNCHANGED <<regtab, resp, poisoned>>
    /\ StoreFrame

\* RegCommand::execute: st.seasons[&series_id] panics under the lock for an unknown
\* id; resp records what the command did
RegCommand(ch, sid, maybe_min, maybe_max, open, close, dbok) ==
    /\ ~poisoned
    /\ IF sid \notin DOMAIN st_seasons
       THEN poisoned' = TRUE /\ resp' = "panic" /\ UNCHANGED regtab
       ELSE LET r == NewReg(ch, sid, maybe_min, maybe_max, open, close, st_seasons[sid])
                known == \E x \in regtab : SameKey(x, r)
            IN /\ known \/ Cardinality(regtab) < MaxRows
               /\ IF dbok
                  THEN /\ regtab' = upsert_reg(regtab, r)
                       /\ resp' = IF known THEN "replaced" ELSE "inserted"
                  ELSE resp' = "err" /\ UNCHANGED regtab
               /\ UNCHANGED poisoned
    /\ UNCHANGED <<sertab, st_seasons>>
    /\ StoreFrame

\* resolve_series_id: the series option does not parse, the command ends
ParseError ==
    /\ resp' = "err"
    /\ UNCHANGED <<regtab, sertab, st_seasons, poisoned>>
    /\ StoreFrame

\* ListCommand::execute and the autocomplete of RemoveCommand: channel_regs, then
\* st.seasons[&x.series_id] for each watch (a panic for a series not published);
\* the autocomplete also panics on a failed query (expect)
ListCommand(ch, autocomp, dbok) ==
    /\ ~poisoned
    /\ IF dbok
       THEN IF \E w \in channel_regs(regtab, sertab, ch) : w.series_id \notin DOMAIN st_seasons
            THEN poisoned' = TRUE /\ resp' = "panic"
            ELSE resp' = "listed" /\ UNCHANGED poisoned
       ELSE IF autocomp
            THEN poisoned' = TRUE /\ resp' = "panic"
            ELSE resp' = "err" /\ UNCHANGED poisoned
    /\ UNCHANGED <<regtab, sertab, st_seasons>>
    /\ StoreFrame

\* the Ok(usize) of a DELETE: what was deleted, or that no row matched
Deleted(before, after, what) == IF after # before THEN what ELSE "no_rows"

\* RemoveCommand::execute
RemoveCommand(ch, sid, dbok) ==
    /\ ~poisoned
    /\ IF dbok
       THEN regtab' = delete_reg(regtab, ch, sid) /\ resp' = Deleted(regtab, regtab', "removed")
       ELSE resp' = "err" /\ UNCHANGED regtab
    /\ UNCHANGED <<sertab, st_seasons, poisoned>>
    /\ StoreFrame

\* channel_delete (a guild channel): a failed delete is only printed
ChannelDelete(ch, dbok) ==
    /\ ~poisoned
    /\ is_some(GuildOf(ch))
    /\ IF dbok
       THEN regtab' = delete_channel(regtab, ch) /\ resp' = Deleted(regtab, regtab', "channel_deleted")
       ELSE resp' = "err" /\ UNCHANGED regtab
    /\ UNCHANGED <<sertab, st_seasons, poisoned>>
    /\ StoreFrame

\* mutant of GuildDelete's test: the unavailable flag is not read
Removed_Always(unavailable) == TRUE

\* if !incomplete.unavailable
Removed(unavailable) == ~unavailable

\* guild_delete: the lock is taken only for a guild reported as removed
GuildDelete(g, unavailable, dbok) ==
    /\ IF Removed(unavailable)
       THEN /\ ~poisoned
            /\ IF dbok
               THEN regtab' = delete_guild(regtab, g) /\ resp' = Deleted(regtab, regtab', "guild_deleted")
               ELSE resp' = "err" /\ UNCHANGED regtab
       ELSE resp' = "no_rows" /\ UNCHANGED regtab
    /\ UNCHANGED <<sertab, st_seasons, poisoned>>
    /\ StoreFrame

NextWatches ==
    \/ \E ids \in SUBSET SeriesIds : SyncStore(ids)
    \/ \E ch \in WatchChannels, sid \in SeriesIds, mm \in RegOptions,
          oc \in FlagPairs, dbok \in BOOLEAN :
             RegCommand(ch, sid, mm[1], mm[2], oc[1], oc[2], dbok)
    \/ ParseError
    \/ \E ch \in WatchChannels, autocomp, dbok \in BOOLEAN : ListCommand(ch, autocomp, dbok)
    \/ \E ch \in WatchChannels, sid \in SeriesIds, dbok \in BOOLEAN : RemoveCommand(ch, sid, dbok)
    \/ \E ch \in WatchChannels, dbok \in BOOLEAN : ChannelDelete(ch, dbok)
    \/ \E g \in GuildIds, unavailable, dbok \in BOOLEAN : GuildDelete(g, unavailable, dbok)

SpecWatches == Init /\ [][NextWatches]_vars

\* C27: every stored watch has max_reg >= min_reg + 1 (a write with a smaller
\* max_reg stores min_reg + 1).
C27_MaxAboveMin == \A row \in regtab : row.max_reg >= row.min_reg + 1

\* C28: the table holds at most one watch per (channel, series), and a write for a
\* pair that has a watch replaces its min_reg, max_reg, open and close and leaves
\* the other watches as they were.
C28_OneWatchPerPair ==
    /\ [](\A a, b \in regtab : SameKey(a, b) => a = b)
    /\ [][\A ch \in WatchChannels, sid \in SeriesIds, mm \in RegOptions, oc \in FlagPairs :
             (/\ resp' = "replaced"
              /\ sid \in DOMAIN st_seasons
              /\ \E x \in regtab : x.channel = ch /\ x.series_id = sid
              /\ RegCommand(ch, sid, mm[1], mm[2], oc[1], oc[2], TRUE))
             => LET r == NewReg(ch, sid, mm[1], mm[2], oc[1], oc[2], st_seasons[sid])
                IN /\ Cardinality(regtab') = Cardinality(regtab)
                   /\ \A y \in regtab' : SameKey(y, r) =>
                          /\ y.min_reg = r.min_reg
                          /\ y.max_reg = r.max_reg
                          /\ y.open = r.open
                          /\ y.close = r.close
                   /\ {y \in regtab' : ~SameKey(y, r)} = {x \in regtab : ~SameKey(x, r)}]_vars

\* C28 witness: a write has replaced a watch while another watch is stored
C28_Witness ==
    /\ resp = "replaced"
    /\ Cardinality(regtab) = 2
    /\ \E x \in regtab : x.min_reg = 2 /\ x.max_reg = 1 /\ x.close

C30_DeletesRemoveExactly ==
    [][(resp' # "err" /\ resp' # "panic" /\ resp' # "inserted" /\ resp' # "replaced") =>
       /\ \A ch \in WatchChannels, sid \in SeriesIds :
             RemoveCommand(ch, sid, TRUE) =>
                /\ regtab' \subseteq regtab
                /\ \A x \in regtab : (x \in regtab') <=> ~(x.channel = ch /\ x.series_id = sid)
       /\ \A ch \in WatchChannels :
             ChannelDelete(ch, TRUE) =>
                /\ regtab' \subseteq regtab
                /\ \A x \in regtab : (x \in regtab') <=> (x.channel # ch)
       /\ \A g \in GuildIds, unavailable \in BOOLEAN :
             GuildDelete(g, unavailable, TRUE) =>
                /\ regtab' \subseteq regtab
                /\ \A x \in regtab : (x \in regtab') <=> (unavailable \/ x.guild # Some(g))]_vars

\* C30 witness: a guild was deleted and the watch of the direct-message channel is
\* what the table still holds
C30_Witness ==
    /\ resp = "guild_deleted"
    /\ Cardinality(regtab) = 1
    /\ \A x \in regtab : x.channel = 3 /\ is_none(x.guild)

(***************************************************************************)
(* Further properties of the poll loop, checked under Spec.                *)
(***************************************************************************)
\* a watch on series id
WatchOn(id) ==
    [channel |-> 1, series_id |-> id, min_reg |-> 0, max_reg |-> 1,
     open |-> TRUE, close |-> TRUE]

\* C33: every announcement a poll stores under key k has the current snapshot of
\* series k, and the announcement announce looks up for a watch satisfies the
\* assertion of wants: watch.series_id = announcement.curr.series_id.
C33_AssertNeverFails ==
    /\ \A k \in DOMAIN announcements : announcements[k].curr.series_id = k
    /\ \A id \in SeriesIds :
          is_some(Lookup(announcements, WatchOn(id))) =>
              WantsAssert(WatchOn(id), unwrap(Lookup(announcements, WatchOn(id))))

\* one poll announced both series, and the lookup finds one for each watch
C33_Witness ==
    /\ pc = "send"
    /\ DOMAIN announcements = SeriesIds
    /\ \A id \in SeriesIds : is_some(Lookup(announcements, WatchOn(id)))

\* C34: the catalog sync completes without panic for every fetched seasons list
\* and series list.
C34_SyncNeverPanics == pc # "panicked"

\* the series ids a race guide names
GuideIds(g) == {g[i].series_id : i \in DOMAIN g}

\* C36: a known series that is not in the race guide of a poll keeps its stored
\* snapshot and gets no announcement in that poll, and every call of update in a
\* poll is made with the snapshot stored at the end of the series' last appearance.
C36_AbsentSeriesUntouched ==
    [][(pc = "fetched" /\ pc' = "send") =>
          /\ \A id \in DOMAIN series_state :
                id \notin GuideIds(guide) =>
                    /\ series_state'[id] = series_state[id]
                    /\ id \notin DOMAIN announcements'
          /\ \A i \in DOMAIN calls' :
                calls'[i].prev = series_state[calls'[i].series_id].race_guide]_vars

\* a series with a stored snapshot was not in the guide of a later poll, in which
\* the other series was announced
C36_Witness ==
    /\ pc = "send"
    /\ polled
    /\ \E id \in DOMAIN series_state :
          /\ id \notin seen
          /\ is_some(series_state[id].race_guide)
          /\ DOMAIN announcements = SeriesIds \ {id}

(***************************************************************************)
(* The announcements of a series over the polls of a run: SpecLife is the  *)
(* poll loop with guides of at most one entry, and keeps the history life. *)
(***************************************************************************)
\* the pass over guide.sessions, with the history of its update calls
LifeDiff ==
    /\ pc = "fetched"
    /\ LET r == ProcessSessions(guide, [state |-> series_state, seen |-> {},
                                        announcements |-> EmptyMap, calls |-> <<>>])
       IN /\ series_state' = r.state
          /\ seen' = r.seen
          /\ announcements' = r.announcements
          /\ calls' = r.calls
          /\ life' = ObserveAll(life, r.calls)
    /\ pc' = "send"
    /\ UNCHANGED guide
    /\ UNCHANGED <<retryVars, matchVars, dispVars, splitVars, syncVars, storeVars, taskVars>>

NextLife ==
    \/ Login
    \/ pc = "sync" /\ \E n \in 0..Cardinality(SeriesIds) :
          \E seasons \in SeasonLists(n), series \in SeriesLists : UpdateSeriesInfo(seasons, series)
    \/ pc = "top" /\ \E n \in 0..1 : \E g \in Guides(n) : RaceGuide(g)
    \/ LifeDiff
    \/ SendAndSleep

SpecLife == Init /\ [][NextLife]_vars

\* C37: a Count or Closed announcement of a series whose first snapshot had no
\* session comes after an Open announcement of that series with no session-less
\* snapshot in between; without an Open before it, the first snapshot of the
\* series had a session.
C37_OpenedBeforeCountOrClosed ==
    [][\A i \in DOMAIN calls' :
          (pc = "fetched" /\ AnnType(calls'[i]) \in {"Count", "Closed"}) =>
              /\ life[calls'[i].series_id].first \in {"absent", "session"}
              /\ life[calls'[i].series_id].first = "absent" =>
                     life[calls'[i].series_id].opened
              /\ ~life[calls'[i].series_id].opened =>
                     life[calls'[i].series_id].first = "session"]_vars

\* a series first seen without a session announced a Count after its Open, while
\* the other series was first seen with a session and has had no Open
C37_Witness ==
    /\ pc = "send"
    /\ \E i \in DOMAIN calls :
          /\ AnnType(calls[i]) = "Count"
          /\ life[calls[i].series_id] = [first |-> "absent", opened |-> TRUE]
          /\ \E j \in SeriesIds \ {calls[i].series_id} :
                life[j] = [first |-> "session", opened |-> FALSE]

(***************************************************************************)
(* listen_task and the commands together: in SpecBatch listen_task reads   *)
(* the watches under the lock and sends the batch while commands go on     *)
(* writing table reg.  st.seasons holds the catalog the poller sent; table *)
(* series holds whatever rows the database file has.                       *)
(***************************************************************************)
\* the sequences that hold every element of S once
Orderings(S) ==
    {f \in [1..Cardinality(S) -> S] : \A i, j \in 1..Cardinality(S) : (i # j) => (f[i] # f[j])}

\* the channels a query without WHERE clause admits
AllChannels(tab) == {x.channel : x \in tab}

\* Db::regs: the rows of the join, in any order, grouped by channel
Db_regs(tab, series) ==
    {GroupByChannel(rows) : rows \in Orderings(query_regs(tab, series, AllChannels(tab)))}

\* the watch a command for channel ch and series sid stores with the default band
DefaultReg(ch, sid) == NewReg(ch, sid, None, None, TRUE, FALSE, FeedInfo(sid))

\* the tables reg that listen_task may find when it starts
BatchTables ==
    {t \in SUBSET {DefaultReg(ch, sid) : ch \in ChannelIds, sid \in SeriesIds} :
        Cardinality(t) <= MaxRows}

\* the batch with an Open announcement for every series
SeriesBatch == [id \in SeriesIds |-> OpenAnnouncement(id)]

\* the handler has the catalog of the poller's Seasons event, the database file
\* has some watches and the rows of some series, listen_task waits for a batch
BatchInit ==
    /\ PollInit /\ SplitsIdle /\ SyncIdle /\ TasksIdle /\ DispatchIdle
    /\ msgs = EmptyMap
    /\ reg = None
    /\ wanted = "idle"
    /\ regtab \in BatchTables
    /\ sertab \in {{SeriesRow(FeedInfo(id), 1) : id \in ids} : ids \in SUBSET SeriesIds}
    /\ st_seasons = [id \in SeriesIds |-> FeedInfo(id)]
    /\ resp = "none"
    /\ poisoned = FALSE

\* listen_task receives a batch: st.db.regs() under the lock, then announce is
\* called with the map read; a failing query panics with the lock held
ListenRead(ok) ==
    /\ a_pc \in {"idle", "done"}
    /\ ~poisoned
    /\ IF ok
       THEN /\ msgs' = SeriesBatch
            /\ regs' \in Db_regs(regtab, sertab)
            /\ left' = DOMAIN regs'
            /\ outbox' = <<>>
            /\ a_pc' = "channels"
            /\ UNCHANGED poisoned
       ELSE /\ poisoned' = TRUE
            /\ a_pc' = "dead"
            /\ UNCHANGED <<msgs, regs, left, outbox>>
    /\ UNCHANGED <<reg, wanted, todo, msger, say_results>>
    /\ UNCHANGED <<regtab, sertab, st_seasons, resp>>
    /\ UNCHANGED <<pollVars, retryVars, splitVars, syncVars, taskVars>>

NextBatch ==
    \/ \E ok \in BOOLEAN : ListenRead(ok)
    \/ \E ch \in ChannelIds : AnnounceChannel(ch)
    \/ a_pc = "watches" /\ \E len \in SendLens : AnnounceWatch(len)
    \/ AnnounceFlush
    \/ AnnounceDone
    \/ \E ch \in ChannelIds, sid \in SeriesIds : RegCommand(ch, sid, None, None, TRUE, FALSE, TRUE)
    \/ \E ch \in ChannelIds, sid \in SeriesIds : RemoveCommand(ch, sid, TRUE)

SpecBatch == BatchInit /\ [][NextBatch]_vars

\* series id has a row in table series
HasSeriesRow(id) == \E t \in sertab : t.series_id = id

\* the rows of the map announce was given
SnapshotRows == UNION {{regs[ch][i] : i \in DOMAIN regs[ch]} : ch \in DOMAIN regs}

\* C31: a watch whose series has no row in table series is not in the map
\* announce is given and gets no line; reading the map does not fail because of
\* it, and every watch whose series has a row is in the map and is dispatched.
C31_DanglingWatchSkipped ==
    /\ [](/\ \A r \in SnapshotRows : HasSeriesRow(r.series_id)
          /\ \A i \in DOMAIN outbox : \A k \in DOMAIN outbox[i].text :
                HasSeriesRow(outbox[i].text[k].series_id)
          /\ a_pc = "done" =>
                \A ch \in DOMAIN regs :
                    Len(Lines(Sent(ch))) = Len(SelectSeq(regs[ch], Matches)))
    /\ [][(a_pc \in {"idle", "done"} /\ ListenRead(TRUE)) =>
             /\ ~poisoned'
             /\ SnapshotRows' = {to_reg(x) : x \in {y \in regtab : HasSeriesRow(y.series_id)}}]_vars

\* announce returned: a watch of the table read has no series row and its
\* channel got no line for its series, while another watch got its line
C31_Witness ==
    /\ a_pc = "done"
    /\ resp = "none"
    /\ \E x \in regtab :
          /\ ~HasSeriesRow(x.series_id)
          /\ x.series_id \in DOMAIN msgs
          /\ OccursIn(Lines(Sent(x.channel)), x.series_id) = 0
    /\ \E y \in regtab :
          /\ HasSeriesRow(y.series_id)
          /\ OccursIn(Lines(Sent(y.channel)), y.series_id) = 1

\* C39: the map a batch is matched against is the table as it is when the batch
\* is received; while the batch is sent the map does not change, whatever the
\* commands write, and the lines sent are those of the matching watches of the
\* map.  The next batch is matched against the table as it is then.
C39_BatchUsesOneSnapshot ==
    /\ [](a_pc = "done" =>
             \A ch \in ChannelIds :
                 SeriesOf(Lines(Sent(ch))) =
                     IF ch \in DOMAIN regs THEN SeriesOf(SelectSeq(regs[ch], Matches))
                     ELSE <<>>)
    /\ [][(a_pc = "channels" \/ a_pc = "watches") => regs' = regs]_vars
    /\ [][(a_pc \in {"idle", "done"} /\ a_pc' = "channels") =>
             SnapshotRows' = query_regs(regtab, sertab, AllChannels(regtab))]_vars
    /\ [][(regtab' # regtab) =>
             UNCHANGED <<regs, left, todo, msger, outbox, a_pc>>]_vars

\* announce returned after a command changed the table while the batch was
\* being sent: the lines sent are those of the map read, which the table no
\* longer equals
C39_Witness ==
    /\ a_pc = "done"
    /\ resp \in {"inserted", "removed"}
    /\ outbox # <<>>
    /\ SnapshotRows # query_regs(regtab, sertab, AllChannels(regtab))
    /\ \A ch \in DOMAIN regs :
          SeriesOf(Lines(Sent(ch))) = SeriesOf(SelectSeq(regs[ch], Matches))

====
